---- MODULE Spec2Model ----
(***************************************************************************)
(* Live query collection: the subscription driver, the run gate and the    *)
(* result materializer of packages/db/src/query/live-query-collection.ts,  *)
(* driving a pipeline  filter -> orderBy/topK -> output  over one source   *)
(* collection.  The source collection, its sorted index, the dataflow      *)
(* graph and the top-K operator live in other packages; they are modelled  *)
(* from their contracts (spec.md sections 4.E, 4.G and 6).                 *)
(***************************************************************************)
EXTENDS Integers, Sequences, FiniteSets

\* ------------------------------------------------------------------ bounds
MaxKey == 3
MaxVal == 1
MaxOffset == 1
MaxLimit == 2
MaxOps == 2
MaxCount == 1
MaxBatch == 2
MaxMult == 2
MaxSrc == 2
MaxStarts == 2

Keys == 1..MaxKey
Vals == 0..MaxVal

Min(a, b) == IF a < b THEN a ELSE b
Max(a, b) == IF a > b THEN a ELSE b

\* ------------------------------------------------------------- data model
\* A source row value: the record handed around in change messages.
Row(k, v) == [key |-> k, ord |-> v]
Rows == [key : Keys, ord : Vals]

\* collection.config.getKey(value)
getKey(value) == value.key

\* A change message of the source collection.
Change(t, k, v, p) == [type |-> t, key |-> k, value |-> v, previousValue |-> p]
InsertMsg(r) == Change("insert", r.key, r, r)
DeleteMsg(r) == Change("delete", r.key, r, r)
UpdateMsg(old, new) == Change("update", new.key, new, old)

\* The i-th row in (order value, row key) order, and the number of rows.
NumRows == MaxKey * (MaxVal + 1)
RowAt(i) == Row(((i - 1) % MaxKey) + 1, (i - 1) \div MaxKey)

\* The rows of set S as a sequence in (order value, row key) order.
RECURSIVE SortedFrom(_, _)
SortedFrom(S, i) ==
  IF i > NumRows THEN <<>>
  ELSE (IF RowAt(i) \in S THEN <<RowAt(i)>> ELSE <<>>) \o SortedFrom(S, i + 1)
SortRows(S) == SortedFrom(S, 1)

\* The rows a source state holds (a source state maps its keys to order values).
SourceRows(s) == {Row(k, s[k]) : k \in DOMAIN s}

\* collection.get(key)
CollectionGet(s, k) == Row(k, s[k])

\* comparator(a, b) of the order-by optimization: compares the order values.
comparator(a, b) == IF a.ord < b.ord THEN 0 - 1 ELSE IF a.ord > b.ord THEN 1 ELSE 0

\* valueExtractorForRawRow(row)
valueExtractorForRawRow(r) == r.ord

\* index.take(n, afterValue): up to n keys in index order strictly after
\* afterValue; from the start of the index when afterValue is absent (<<>>).
IndexTake(s, n, after) ==
  LET cands == {r \in SourceRows(s) : after = <<>> \/ r.ord > after[1]}
      sorted == SortRows(cands)
  IN  [i \in 1..Min(n, Len(sorted)) |-> sorted[i].key]


\* ------------------------------------------- driver helpers (input boundary)
\* A variant of the tuples of a change that puts the new value of an update first.
ChangeTuples_InsertFirst(c) ==
  IF c.type = "insert" THEN <<[key |-> getKey(c.value), value |-> c.value, mult |-> 1]>>
  ELSE IF c.type = "update"
       THEN <<[key |-> getKey(c.value), value |-> c.value, mult |-> 1],
              [key |-> getKey(c.value), value |-> c.previousValue, mult |-> 0 - 1]>>
       ELSE <<[key |-> getKey(c.value), value |-> c.value, mult |-> 0 - 1]>>

\* sendChangesToInput: the signed tuples one change message becomes.
ChangeTuples(c) ==
  IF c.type = "insert" THEN <<[key |-> getKey(c.value), value |-> c.value, mult |-> 1]>>
  ELSE IF c.type = "update"
       THEN <<[key |-> getKey(c.value), value |-> c.previousValue, mult |-> 0 - 1],
              [key |-> getKey(c.value), value |-> c.value, mult |-> 1]>>
       ELSE <<[key |-> getKey(c.value), value |-> c.value, mult |-> 0 - 1]>>

RECURSIVE sendChangesToInput(_)
sendChangesToInput(changes) ==
  IF changes = <<>> THEN <<>>
  ELSE ChangeTuples(Head(changes)) \o sendChangesToInput(Tail(changes))

\* splitUpdates: an update becomes a delete of the old and an insert of the new value.
RECURSIVE splitUpdates(_)
splitUpdates(changes) ==
  IF changes = <<>> THEN <<>>
  ELSE LET c == Head(changes)
       IN  (IF c.type = "update"
            THEN <<Change("delete", c.key, c.previousValue, c.previousValue),
                   Change("insert", c.key, c.value, c.value)>>
            ELSE <<c>>) \o splitUpdates(Tail(changes))

\* A variant of the predicate that also drops rows that tie with the max.
SmallerOrEqualToMax_Strict(c, maxValue) ==
  maxValue = <<>> \/ comparator(c.value, maxValue[1]) < 0

\* The predicate of filterChangesSmallerOrEqualToMax; maxValue is <<>> or <<row>>.
SmallerOrEqualToMax(c, maxValue) ==
  maxValue = <<>> \/ comparator(c.value, maxValue[1]) <= 0

\* filterChanges specialised by filterChangesSmallerOrEqualToMax.
RECURSIVE filterChangesSmallerOrEqualToMax(_, _)
filterChangesSmallerOrEqualToMax(changes, maxValue) ==
  IF changes = <<>> THEN <<>>
  ELSE (IF SmallerOrEqualToMax(Head(changes), maxValue) THEN <<Head(changes)>> ELSE <<>>)
       \o filterChangesSmallerOrEqualToMax(Tail(changes), maxValue)

\* A variant of the tracking step that keeps the first row as the biggest.
TrackOne_KeepFirst(tracker, c) ==
  [sentKeys |-> tracker.sentKeys \cup {c.key},
   biggest  |-> IF tracker.biggest = <<>> THEN <<c.value>> ELSE tracker.biggest]

\* trackSentValues: the tracker after the changes have been consumed.
TrackOne(tracker, c) ==
  [sentKeys |-> tracker.sentKeys \cup {c.key},
   biggest  |-> IF tracker.biggest = <<>> THEN <<c.value>>
                ELSE IF comparator(tracker.biggest[1], c.value) < 0 THEN <<c.value>>
                ELSE tracker.biggest]

RECURSIVE trackSentValues(_, _)
trackSentValues(changes, tracker) ==
  IF changes = <<>> THEN tracker
  ELSE trackSentValues(Tail(changes), TrackOne(tracker, Head(changes)))

\* The biggest row sent once the inserts among the changes went to the pipeline.
RECURSIVE BiggestAfter(_, _)
BiggestAfter(big, changes) ==
  IF changes = <<>> THEN big
  ELSE LET c == Head(changes)
           b == IF c.type # "insert" THEN big
                ELSE IF big = <<>> THEN <<c.value>>
                ELSE IF comparator(big[1], c.value) < 0 THEN <<c.value>>
                ELSE big
       IN  BiggestAfter(b, Tail(changes))

\* loadNextItems: the keys index.take returns after the biggest sent value,
\* and the insert messages built from them.
BiggestSentValue(big) == IF big = <<>> THEN <<>> ELSE <<valueExtractorForRawRow(big[1])>>
NextOrderedKeys_FromStart(s, n, big) == IndexTake(s, n, <<>>)
NextOrderedKeys(s, n, big) == IndexTake(s, n, BiggestSentValue(big))
NextInserts(s, n, big) ==
  LET ks == NextOrderedKeys(s, n, big)
  IN  [i \in 1..Len(ks) |-> InsertMsg(CollectionGet(s, ks[i]))]

\* --------------------------------------------- pipeline: filter and top-K
\* The WHERE predicate of the query (order value at least wmin).
Pass(r, wmin) == r.ord >= wmin

\* A variant of the run that takes only the newest tuple of the input and
\* discards the ones that waited before it.
ApplyTuples_NewestOnly(buf, ts, wmin) ==
  IF ts = <<>> THEN buf
  ELSE LET t == ts[Len(ts)]
       IN  IF Pass(t.value, wmin) THEN [buf EXCEPT ![t.value] = @ + t.mult] ELSE buf

\* The top-K buffer after a batch of input tuples went through the filter.
RECURSIVE ApplyTuples(_, _, _)
ApplyTuples(buf, ts, wmin) ==
  IF ts = <<>> THEN buf
  ELSE LET t == Head(ts)
       IN  ApplyTuples(IF Pass(t.value, wmin)
                       THEN [buf EXCEPT ![t.value] = @ + t.mult]
                       ELSE buf,
                       Tail(ts), wmin)

\* The buffered rows in (order value, row key) order, each as often as it is present.
RECURSIVE ExpandFrom(_, _)
ExpandFrom(buf, i) ==
  IF i > NumRows THEN <<>>
  ELSE [j \in 1..Max(buf[RowAt(i)], 0) |-> RowAt(i)] \o ExpandFrom(buf, i + 1)
Expand(buf) == ExpandFrom(buf, 1)

BufferSize(buf) == Len(Expand(buf))

\* window: the slice [offset, offset+limit) of the buffer.
Window(buf, off, lim) ==
  LET e == Expand(buf) IN SubSeq(e, off + 1, Min(off + lim, Len(e)))

\* dataNeeded(): how many more rows the operator would accept.
DataNeeded(buf, off, lim) == Max(0, (off + lim) - BufferSize(buf))

CountIn(w, r) == Cardinality({i \in 1..Len(w) : w[i] = r})

\* The fractional index of a row: a string comparable in (order value, row key) order.
FracIndex(r) == <<r.ord, r.key>>

\* A tuple of the terminal stream: key, projected value, fractional index, multiplicity.
TermTuple(r, m) == [key |-> r.key, value |-> r.ord, idx |-> FracIndex(r), mult |-> m]

RECURSIVE DiffFrom(_, _, _, _)
DiffFrom(wOld, wNew, i, sign) ==
  IF i > NumRows THEN <<>>
  ELSE LET d == CountIn(wNew, RowAt(i)) - CountIn(wOld, RowAt(i))
       IN  (IF d * sign > 0 THEN <<TermTuple(RowAt(i), d)>> ELSE <<>>)
           \o DiffFrom(wOld, wNew, i + 1, sign)

\* What the top-K emits for a window change: retractions, then inserts.
TopKOutput(wOld, wNew) == DiffFrom(wOld, wNew, 1, 0 - 1) \o DiffFrom(wOld, wNew, 1, 1)

\* ------------------------------------------------------------ materializer
Abs(n) == IF n < 0 THEN 0 - n ELSE n

AccIndex(acc, k) ==
  IF \E i \in 1..Len(acc) : acc[i].key = k
  THEN CHOOSE i \in 1..Len(acc) : acc[i].key = k
  ELSE 0

\* A variant of the reduce callback that takes the value and the index from
\* every tuple, retractions included.
AccStep_LastTuple(acc, t) ==
  LET i   == AccIndex(acc, t.key)
      cur == IF i = 0
             THEN [key |-> t.key, deletes |-> 0, inserts |-> 0,
                   value |-> t.value, orderByIndex |-> t.idx]
             ELSE acc[i]
      new == IF t.mult < 0
             THEN [cur EXCEPT !.deletes = @ + Abs(t.mult), !.value = t.value,
                              !.orderByIndex = t.idx]
             ELSE IF t.mult > 0
                  THEN [cur EXCEPT !.inserts = @ + t.mult, !.value = t.value,
                                   !.orderByIndex = t.idx]
                  ELSE cur
  IN  IF i = 0 THEN Append(acc, new) ELSE [acc EXCEPT ![i] = new]

\* One call of the reduce callback of the output handler.
AccStep(acc, t) ==
  LET i   == AccIndex(acc, t.key)
      cur == IF i = 0
             THEN [key |-> t.key, deletes |-> 0, inserts |-> 0,
                   value |-> t.value, orderByIndex |-> t.idx]
             ELSE acc[i]
      new == IF t.mult < 0 THEN [cur EXCEPT !.deletes = @ + Abs(t.mult)]
             ELSE IF t.mult > 0
                  THEN [cur EXCEPT !.inserts = @ + t.mult, !.value = t.value,
                                   !.orderByIndex = t.idx]
                  ELSE cur
  IN  IF i = 0 THEN Append(acc, new) ELSE [acc EXCEPT ![i] = new]

RECURSIVE ReduceFrom(_, _)
ReduceFrom(acc, messages) ==
  IF messages = <<>> THEN acc
  ELSE ReduceFrom(AccStep(acc, Head(messages)), Tail(messages))

\* messages.reduce(...): per key {deletes, inserts, value, orderByIndex}, in
\* the order the keys first occur.
ReduceMessages(messages) == ReduceFrom(<<>>, messages)

\* Variants of the branch: every batch with inserts is an insert; an update
\* only for a key the collection has; a delete only for a key the collection has.
WriteType_InsertFirst(changes, has) ==
  IF changes.inserts > 0 THEN "insert"
  ELSE IF changes.inserts = changes.deletes /\ has THEN "update"
       ELSE IF changes.deletes > 0 THEN "delete"
       ELSE "throw"

WriteType_ByPresence(changes, has) ==
  IF changes.inserts > changes.deletes THEN (IF has THEN "update" ELSE "insert")
  ELSE IF changes.inserts = changes.deletes /\ has THEN "update"
       ELSE IF changes.deletes > 0 THEN "delete"
       ELSE "throw"

WriteType_DeletePresent(changes, has) ==
  IF changes.inserts > 0 /\ changes.deletes = 0 THEN "insert"
  ELSE IF changes.inserts > changes.deletes \/ (changes.inserts = changes.deletes /\ has)
       THEN "update"
       ELSE IF changes.deletes > 0 /\ has THEN "delete"
       ELSE "throw"

\* The branch the forEach callback takes for one key.
WriteType(changes, has) ==
  IF changes.inserts > 0 /\ changes.deletes = 0 THEN "insert"
  ELSE IF changes.inserts > changes.deletes \/ (changes.inserts = changes.deletes /\ has)
       THEN "update"
       ELSE IF changes.deletes > 0 THEN "delete"
       ELSE "throw"

\* The writes of one batch, in order; a final "throw" entry when the handler threw.
RECURSIVE WritesFrom(_, _, _)
WritesFrom(acc, i, res) ==
  IF i > Len(acc) THEN <<>>
  ELSE LET ty == WriteType(acc[i], acc[i].key \in DOMAIN res)
           w  == [type |-> ty, key |-> acc[i].key, value |-> acc[i].value]
       IN  IF ty = "throw" THEN <<w>> ELSE <<w>> \o WritesFrom(acc, i + 1, res)

OutputWrites(messages, res) == WritesFrom(ReduceMessages(messages), 1, res)

Threw(ws) == ws # <<>> /\ ws[Len(ws)].type = "throw"

\* The result collection after commit() applied the writes of a transaction.
ApplyWrite(res, w) ==
  IF w.type = "delete"
  THEN [k \in DOMAIN res \ {w.key} |-> res[k]]
  ELSE [k \in DOMAIN res \cup {w.key} |-> IF k = w.key THEN w.value ELSE res[k]]

RECURSIVE ApplyWrites(_, _)
ApplyWrites(res, ws) ==
  IF ws = <<>> THEN res ELSE ApplyWrites(ApplyWrite(res, Head(ws)), Tail(ws))

\* ------------------------------------------------------------------ state
VARIABLES
  src,            \* source collection: present key -> order value
  status,         \* source collection status: "loading", "initialCommit", "ready"
  offset, limit,  \* OFFSET and LIMIT of the query
  whereMin,       \* WHERE: rows pass when their order value is >= whereMin (0: no WHERE)
  indexed,        \* TRUE: the source is in optimizableOrderByCollections (ordered mode)
  pc,             \* "init", "idle", "run", "callback", "finish", "error"
  subscribed,     \* subscribedToAllCollections
  hasCallback,    \* the running maybeRunGraph was given loadMoreIfNeeded
  ready,          \* what the callback of the current maybeRunGraph frame returned
  depth,          \* maybeRunGraph frames below the current one
  inputQ,         \* tuples sent to the graph input and not yet run
  buffer,         \* top-K operator state: row -> multiplicity
  sentKeys,       \* sentValuesInfo.sentKeys
  biggest,        \* sentValuesInfo.biggest: <<>> or <<row>>
  result,         \* result collection: key -> value
  messagesCount,  \* messagesCount of the sync session (counted up to MaxCount)
  termBatch,      \* the last terminal batch of the running handler
  hadKeys,        \* the keys the result collection held when that batch arrived
  writes,         \* the writes the output handler issued for that batch
  txOpen,         \* a begin() without its commit()
  markedReady,    \* markReady() has been called
  justMarked,     \* the last step called markReady()
  emptyCommit,    \* the last step issued begin() directly followed by commit()
  cfg,            \* the query as compiled: per source its mode, WHERE and subscribe outcome
  life,           \* the life cycle of the live query: caches, subscriptions, errors
  loadedInitialState, \* subscribeToMatchingChanges: loadedInitialState
  keyLoads,       \* how often loadKeys has injected each key
  call,           \* the last call into the driver: its arguments and what it sent on
  orderByIndices, \* the WeakMap orderByIndices: result value -> fractional index, <<>> when absent
  heap,           \* the objects handed to hash(): per object its kind and its present content
  hashCache,      \* the WeakMap hashCache: object -> hash, <<>> when absent
  nextRefId,      \* nextRefId of cachedReferenceHash
  biggestSent,    \* history: the biggest row sent to the pipeline as an insert, <<>> or <<row>>
  opLog,          \* history: the last two source transactions, newest first, each with the result it found
  ops,            \* source mutations since sync started
  lastOp          \* what the running handler was called for: the start or a change

vars == <<src, status, offset, limit, whereMin, indexed, pc, subscribed, hasCallback,
          ready, depth, inputQ, buffer, sentKeys, biggest, result, messagesCount,
          termBatch, hadKeys, writes, txOpen, markedReady, justMarked, ops, lastOp,
          emptyCommit, cfg, life, loadedInitialState, keyLoads, call, biggestSent,
          opLog, orderByIndices, heap, hashCache, nextRefId>>

queryVars == <<offset, limit, whereMin, indexed>>
trackerVars == <<sentKeys, biggest>>
batchVars == <<termBatch, hadKeys, writes>>
hashVars == <<heap, hashCache, nextRefId>>
callVars == <<cfg, life, loadedInitialState, keyLoads, call, orderByIndices, hashVars>>
extVars == <<callVars, biggestSent, opLog>>

Empty == [k \in {} |-> 0]
NoOp == [type |-> "none", key |-> 0, afterMax |-> FALSE, underfilled |-> FALSE]
NoCall == [kind |-> "none"]
NoCfg == [kind |-> "single"]
NoLife == [pc |-> "single"]
NoIndices == [v \in Keys |-> <<>>]

\* No object has been handed to hash().
HashAtRest ==
  /\ heap = <<>>
  /\ hashCache = <<>>
  /\ nextRefId = 1

\* The variables of the other views of the program, at rest.
ExtAtRest ==
  /\ cfg = NoCfg
  /\ life = NoLife
  /\ loadedInitialState = FALSE
  /\ keyLoads = [k \in Keys |-> 0]
  /\ call = NoCall
  /\ biggestSent = <<>>
  /\ opLog = <<>>
  /\ orderByIndices = NoIndices
  /\ HashAtRest

\* collection.status === `ready` || collection.status === `initialCommit`, for every source
allCollectionsReadyOrInitialCommit == status \in {"ready", "initialCommit"}

\* collection.isReady(), for every source
allCollectionsReady == status = "ready"

\* A variant of the condition that does not look at the sources.
RunGate_AnyStatus(sub) == sub

\* The condition under which maybeRunGraph runs the graph.
RunGate(sub) == allCollectionsReadyOrInitialCommit /\ sub

\* The states a source collection can be in: any rows with unique keys.
SourceStates == UNION {[S -> Vals] : S \in SUBSET Keys}

\* State after construction: the pipeline is compiled, sync has not started.
Init ==
  /\ src \in SourceStates
  /\ status \in {"loading", "initialCommit", "ready"}
  /\ offset \in 0..MaxOffset
  /\ limit \in 1..MaxLimit
  /\ whereMin \in 0..1
  /\ indexed \in BOOLEAN
  /\ pc = "init"
  /\ subscribed = FALSE
  /\ hasCallback = FALSE
  /\ ready = FALSE
  /\ depth = 0
  /\ inputQ = <<>>
  /\ buffer = [r \in Rows |-> 0]
  /\ sentKeys = {}
  /\ biggest = <<>>
  /\ result = Empty
  /\ messagesCount = 0
  /\ termBatch = <<>>
  /\ hadKeys = {}
  /\ writes = <<>>
  /\ txOpen = FALSE
  /\ markedReady = FALSE
  /\ justMarked = FALSE
  /\ emptyCommit = FALSE
  /\ ExtAtRest
  /\ ops = 0
  /\ lastOp = NoOp

\* ------------------------------------------------------ source collection
\* What the source hands a subscriber with a whereExpression for one change.
SourceEmit(c, wmin) ==
  IF c.type = "update"
  THEN IF Pass(c.previousValue, wmin) /\ Pass(c.value, wmin) THEN <<c>>
       ELSE IF Pass(c.value, wmin) THEN <<InsertMsg(c.value)>>
       ELSE IF Pass(c.previousValue, wmin) THEN <<DeleteMsg(c.previousValue)>>
       ELSE <<>>
  ELSE IF Pass(c.value, wmin) THEN <<c>> ELSE <<>>

\* currentStateAsChanges({ whereExpression })
currentStateAsChanges(s, wmin) ==
  LET rs == SortRows({r \in SourceRows(s) : Pass(r, wmin)})
  IN  [i \in 1..Len(rs) |-> InsertMsg(rs[i])]

\* The source after a change message was applied to it.
SourceApply(s, c) ==
  IF c.type = "delete"
  THEN [k \in DOMAIN s \ {c.key} |-> s[k]]
  ELSE [k \in DOMAIN s \cup {c.key} |-> IF k = c.key THEN c.value.ord ELSE s[k]]

\* The changes the source can make to itself in state s.
SourceChanges(s) ==
  {InsertMsg(Row(k, v)) : k \in Keys \ DOMAIN s, v \in Vals}
  \cup {DeleteMsg(Row(k, s[k])) : k \in DOMAIN s}
  \cup UNION {{UpdateMsg(Row(k, s[k]), Row(k, v)) : v \in Vals \ {s[k]}} : k \in DOMAIN s}

\* The source moves on in its life cycle; nothing is delivered.
SourceAdvance ==
  /\ pc \in {"init", "idle"}
  /\ status # "ready"
  /\ status' = IF status = "loading" THEN "initialCommit" ELSE "ready"
  /\ justMarked' = FALSE
  /\ emptyCommit' = FALSE
  /\ UNCHANGED extVars
  /\ UNCHANGED <<src, queryVars, pc, subscribed, hasCallback, ready, depth, inputQ,
                 buffer, trackerVars, result, messagesCount, batchVars, txOpen,
                 markedReady, ops, lastOp>>

\* ------------------------------------------------------------------ driver
\* What the subscription listener of the source forwards to the input:
\* sendChangesInRange in ordered mode, sendChangesToPipeline otherwise.
Forwarded(changes) ==
  IF indexed
  THEN filterChangesSmallerOrEqualToMax(splitUpdates(changes), biggest)
  ELSE changes

\* The log of source transactions once one more has been made: what it was,
\* the result collection it found and whether the graph input was empty then.
Logged(what) ==
  <<[change |-> what, result |-> result, quiet |-> inputQ = <<>>]>>
    \o (IF opLog = <<>> THEN <<>> ELSE <<opLog[1]>>)

\* The history record of a delivered change.
OpRecord(c) ==
  [type |-> c.type, key |-> c.key,
   afterMax |-> biggest # <<>> /\ comparator(c.value, biggest[1]) > 0,
   underfilled |-> Cardinality(DOMAIN src) < offset + limit
                   /\ DataNeeded(buffer, offset, limit) > 0]

\* A variant of the listener that returns without maybeRunGraph when the filter
\* left nothing of the change.
Mutate_NoRunOnDrop ==
  /\ pc = "idle"
  /\ ops < MaxOps
  /\ \E c \in SourceChanges(src) :
       LET emitted == SourceEmit(c, whereMin)
       IN  /\ src' = SourceApply(src, c)
           /\ ops' = ops + 1
           /\ opLog' = Logged(c)
           /\ IF emitted = <<>> \/ Forwarded(emitted) = <<>>
              THEN UNCHANGED <<inputQ, pc, hasCallback, lastOp, biggestSent>>
              ELSE /\ inputQ' = inputQ \o sendChangesToInput(Forwarded(emitted))
                   /\ biggestSent' = BiggestAfter(biggestSent, Forwarded(emitted))
                   /\ IF RunGate(subscribed)
                      THEN /\ pc' = "run"
                           /\ hasCallback' = indexed
                           /\ lastOp' = OpRecord(emitted[1])
                      ELSE UNCHANGED <<pc, hasCallback, lastOp>>
  /\ justMarked' = FALSE
  /\ emptyCommit' = FALSE
  /\ UNCHANGED callVars
  /\ UNCHANGED <<status, queryVars, subscribed, ready, depth, buffer, trackerVars,
                 result, messagesCount, batchVars, txOpen, markedReady>>

\* The source changes and delivers the change to the subscription listener,
\* which sends it to the input and calls maybeRunGraph.
Mutate ==
  /\ pc = "idle"
  /\ ops < MaxOps
  /\ \E c \in SourceChanges(src) :
       LET emitted == SourceEmit(c, whereMin)
       IN  /\ src' = SourceApply(src, c)
           /\ ops' = ops + 1
           /\ opLog' = Logged(c)
           /\ IF emitted = <<>>
              THEN UNCHANGED <<inputQ, pc, hasCallback, lastOp, biggestSent>>
              ELSE /\ inputQ' = inputQ \o sendChangesToInput(Forwarded(emitted))
                   /\ biggestSent' = BiggestAfter(biggestSent, Forwarded(emitted))
                   /\ IF RunGate(subscribed)
                      THEN /\ pc' = "run"
                           /\ hasCallback' = indexed
                           /\ lastOp' = OpRecord(emitted[1])
                      ELSE UNCHANGED <<pc, hasCallback, lastOp>>
  /\ justMarked' = FALSE
  /\ emptyCommit' = FALSE
  /\ UNCHANGED callVars
  /\ UNCHANGED <<status, queryVars, subscribed, ready, depth, buffer, trackerVars,
                 result, messagesCount, batchVars, txOpen, markedReady>>

\* The source inserts a row and deletes it again in one transaction, and hands
\* both changes to the subscription listener as one batch.
MutateRoundTrip ==
  /\ pc = "idle"
  /\ ops < MaxOps
  /\ \E r \in {x \in Rows : x.key \notin DOMAIN src} :
       LET emitted == SourceEmit(InsertMsg(r), whereMin) \o SourceEmit(DeleteMsg(r), whereMin)
       IN  /\ opLog' = Logged([InsertMsg(r) EXCEPT !.type = "insert-delete"])
           /\ IF emitted = <<>>
              THEN UNCHANGED <<inputQ, pc, hasCallback, lastOp, biggestSent>>
              ELSE /\ inputQ' = inputQ \o sendChangesToInput(Forwarded(emitted))
                   /\ biggestSent' = BiggestAfter(biggestSent, Forwarded(emitted))
                   /\ IF RunGate(subscribed)
                      THEN /\ pc' = "run"
                           /\ hasCallback' = indexed
                           /\ lastOp' = [OpRecord(emitted[1]) EXCEPT !.type = "insert-delete"]
                      ELSE UNCHANGED <<pc, hasCallback, lastOp>>
  /\ ops' = ops + 1
  /\ justMarked' = FALSE
  /\ emptyCommit' = FALSE
  /\ UNCHANGED callVars
  /\ UNCHANGED <<src, status, queryVars, subscribed, ready, depth, buffer, trackerVars,
                 result, messagesCount, batchVars, txOpen, markedReady>>

\* sync(): the source is subscribed in its mode, then the initial maybeRunGraph().
StartSync ==
  /\ pc = "init"
  /\ LET initial == IF indexed
                    THEN NextInserts(src, offset + limit, biggest)
                    ELSE currentStateAsChanges(src, whereMin)
         tracker == IF indexed
                    THEN trackSentValues(initial, [sentKeys |-> sentKeys, biggest |-> biggest])
                    ELSE [sentKeys |-> sentKeys, biggest |-> biggest]
     IN  /\ inputQ' = inputQ \o sendChangesToInput(initial)
         /\ sentKeys' = tracker.sentKeys
         /\ biggest' = tracker.biggest
         /\ biggestSent' = BiggestAfter(biggestSent, initial)
  /\ subscribed' = TRUE
  /\ hasCallback' = FALSE
  /\ pc' = IF RunGate(TRUE) THEN "run" ELSE "idle"
  /\ lastOp' = IF RunGate(TRUE) THEN [NoOp EXCEPT !.type = "start"] ELSE NoOp
  /\ justMarked' = FALSE
  /\ emptyCommit' = FALSE
  /\ UNCHANGED <<callVars, opLog>>
  /\ UNCHANGED <<src, status, queryVars, ready, depth, buffer, result, messagesCount,
                 batchVars, txOpen, markedReady, ops>>

\* The output handler: count the messages, begin(), one write per key of the
\* batch, commit(); a throw leaves the transaction open and nothing committed.
Output(messages, pcAfter) ==
  LET ws == OutputWrites(messages, result)
  IN  /\ termBatch' = messages
      /\ hadKeys' = DOMAIN result
      /\ writes' = ws
      /\ messagesCount' = Min(messagesCount + Len(messages), MaxCount)
      /\ IF Threw(ws)
         THEN /\ pc' = "error"
              /\ txOpen' = TRUE
              /\ result' = result
         ELSE /\ pc' = pcAfter
              /\ txOpen' = FALSE
              /\ result' = ApplyWrites(result, ws)

\* graph.run(): the pending input goes through filter and top-K; a non-empty
\* terminal batch reaches the output handler.
GraphRun ==
  /\ pc = "run"
  /\ LET newBuf == ApplyTuples(buffer, inputQ, whereMin)
         out    == TopKOutput(Window(buffer, offset, limit), Window(newBuf, offset, limit))
     IN  /\ buffer' = newBuf
         /\ inputQ' = <<>>
         /\ IF out = <<>>
            THEN /\ pc' = "callback"
                 /\ termBatch' = <<>>
                 /\ hadKeys' = {}
                 /\ writes' = <<>>
                 /\ UNCHANGED <<result, messagesCount, txOpen>>
            ELSE Output(out, "callback")
  /\ justMarked' = FALSE
  /\ emptyCommit' = FALSE
  /\ UNCHANGED extVars
  /\ UNCHANGED <<src, status, queryVars, subscribed, hasCallback, ready, depth,
                 trackerVars, markedReady, ops, lastOp>>

\* const ready = callback?.() ?? true, with callback = loadMoreIfNeeded:
\* probe dataNeeded(), and when it is positive load the next items, which
\* sends them to the input and calls maybeRunGraph(loadMoreIfNeeded) again.
\* A load that returns nothing leaves dataNeeded() as it was, so the calls
\* nest without end and their frames never return: depth counts only the
\* frames of loads that returned rows.
Callback ==
  /\ pc = "callback"
  /\ LET n == DataNeeded(buffer, offset, limit)
     IN  IF hasCallback /\ n > 0
         THEN LET loaded  == NextInserts(src, n, biggest)
                  tracker == trackSentValues(loaded, [sentKeys |-> sentKeys, biggest |-> biggest])
              IN  /\ inputQ' = inputQ \o sendChangesToInput(loaded)
                  /\ sentKeys' = tracker.sentKeys
                  /\ biggest' = tracker.biggest
                  /\ biggestSent' = BiggestAfter(biggestSent, loaded)
                  /\ IF RunGate(subscribed)
                     THEN /\ pc' = "run"
                          /\ depth' = IF loaded = <<>> THEN depth ELSE depth + 1
                          /\ ready' = ready
                     ELSE /\ pc' = "finish"
                          /\ depth' = depth
                          /\ ready' = FALSE
         ELSE /\ ready' = TRUE
              /\ pc' = "finish"
              /\ UNCHANGED <<inputQ, sentKeys, biggest, depth, biggestSent>>
  /\ justMarked' = FALSE
  /\ emptyCommit' = FALSE
  /\ UNCHANGED <<callVars, opLog>>
  /\ UNCHANGED <<src, status, queryVars, subscribed, hasCallback, buffer, result,
                 messagesCount, batchVars, txOpen, markedReady, ops, lastOp>>

\* A variant of maybeRunGraph that never issues the empty transaction.
EmptyCommitNeeded_Never == FALSE

\* A variant of maybeRunGraph that issues the empty transaction after every
\* run that is followed by its callback.
EmptyCommitNeeded_Always == TRUE

\* if (messagesCount === 0) { begin(); commit() }
EmptyCommitNeeded == messagesCount = 0

\* A variant of the rest of maybeRunGraph that marks ready only once an output
\* message has been seen.
Finish_ReadyAfterOutput ==
  /\ pc = "finish"
  /\ markedReady' = (markedReady \/ (ready /\ allCollectionsReady /\ messagesCount > 0))
  /\ justMarked' = (ready /\ allCollectionsReady /\ messagesCount > 0)
  /\ emptyCommit' = EmptyCommitNeeded
  /\ UNCHANGED extVars
  /\ IF depth > 0
     THEN /\ depth' = depth - 1
          /\ ready' = FALSE
          /\ pc' = "finish"
          /\ UNCHANGED <<hasCallback, batchVars, lastOp>>
     ELSE /\ depth' = 0
          /\ ready' = FALSE
          /\ pc' = "idle"
          /\ hasCallback' = FALSE
          /\ termBatch' = <<>>
          /\ hadKeys' = {}
          /\ writes' = <<>>
          /\ lastOp' = NoOp
  /\ UNCHANGED <<src, status, queryVars, subscribed, inputQ, buffer, trackerVars,
                 result, messagesCount, txOpen, ops>>

\* The rest of maybeRunGraph after the callback returned: the empty commit of a
\* session without messages, markReady(), and the return to the calling frame.
Finish ==
  /\ pc = "finish"
  /\ markedReady' = (markedReady \/ (ready /\ allCollectionsReady))
  /\ justMarked' = (ready /\ allCollectionsReady)
  /\ emptyCommit' = EmptyCommitNeeded
  /\ UNCHANGED extVars
  /\ IF depth > 0
     THEN /\ depth' = depth - 1
          /\ ready' = FALSE
          /\ pc' = "finish"
          /\ UNCHANGED <<hasCallback, batchVars, lastOp>>
     ELSE /\ depth' = 0
          /\ ready' = FALSE
          /\ pc' = "idle"
          /\ hasCallback' = FALSE
          /\ termBatch' = <<>>
          /\ hadKeys' = {}
          /\ writes' = <<>>
          /\ lastOp' = NoOp
  /\ UNCHANGED <<src, status, queryVars, subscribed, inputQ, buffer, trackerVars,
                 result, messagesCount, txOpen, ops>>

Next == SourceAdvance \/ Mutate \/ MutateRoundTrip \/ StartSync \/ GraphRun \/ Callback \/ Finish

Spec == Init /\ [][Next]_vars

\* ------------------------------------- the output handler on any batch
\* A tuple of a terminal batch, and the batches of at most MaxBatch tuples.
TermTuples ==
  {[key |-> k, value |-> v, idx |-> FracIndex(Row(k, v)), mult |-> m] :
     k \in Keys, v \in Vals, m \in (0 - MaxMult)..MaxMult}
Batches == UNION {[1..n -> TermTuples] : n \in 0..MaxBatch}

\* The result collection holds any rows; one terminal batch is about to arrive.
InitMat ==
  /\ src = Empty
  /\ status = "ready"
  /\ offset = 0
  /\ limit = 1
  /\ whereMin = 0
  /\ indexed = FALSE
  /\ pc = "output"
  /\ subscribed = TRUE
  /\ hasCallback = FALSE
  /\ ready = FALSE
  /\ depth = 0
  /\ inputQ = <<>>
  /\ buffer = [r \in Rows |-> 0]
  /\ sentKeys = {}
  /\ biggest = <<>>
  /\ result \in SourceStates
  /\ messagesCount = 0
  /\ termBatch = <<>>
  /\ hadKeys = {}
  /\ writes = <<>>
  /\ txOpen = FALSE
  /\ markedReady = FALSE
  /\ justMarked = FALSE
  /\ emptyCommit = FALSE
  /\ ExtAtRest
  /\ ops = 0
  /\ lastOp = NoOp

\* The terminal stream delivers a batch to the output handler.
EmitBatch ==
  /\ pc = "output"
  /\ \E b \in Batches : Output(b, "done")
  /\ UNCHANGED <<src, status, queryVars, subscribed, hasCallback, ready, depth, inputQ,
                 buffer, trackerVars, markedReady, justMarked, ops, lastOp,
                 emptyCommit, extVars>>

NextMat == EmitBatch

SpecMat == InitMat /\ [][NextMat]_vars

\* ------------------------------------------------ life cycle of the query
\* The source collections of the query, in the order of Object.entries(collections).
Sources == 1..MaxSrc

\* The driver of one source is at rest; only the life cycle is followed.
DriverAtRest ==
  /\ src = Empty
  /\ offset = 0
  /\ limit = 1
  /\ whereMin = 0
  /\ indexed = FALSE
  /\ subscribed = FALSE
  /\ hasCallback = FALSE
  /\ ready = FALSE
  /\ depth = 0
  /\ inputQ = <<>>
  /\ buffer = [r \in Rows |-> 0]
  /\ sentKeys = {}
  /\ biggest = <<>>
  /\ result = Empty
  /\ messagesCount = 0
  /\ termBatch = <<>>
  /\ hadKeys = {}
  /\ writes = <<>>
  /\ txOpen = FALSE
  /\ markedReady = FALSE
  /\ justMarked = FALSE
  /\ emptyCommit = FALSE
  /\ ops = 0
  /\ lastOp = NoOp

driverVars == <<src, offset, limit, whereMin, indexed, subscribed, hasCallback, ready,
                depth, inputQ, buffer, sentKeys, biggest, result, messagesCount,
                termBatch, hadKeys, writes, txOpen, markedReady, justMarked,
                emptyCommit, ops, lastOp>>

\* A query over MaxSrc sources: LIMIT/OFFSET without ORDER BY or not; per source
\* whether it is in lazyCollections, whether it has an entry in
\* optimizableOrderByCollections, its pushed-down WHERE ("none", "ok":
\* convertible, "bad": convertToBasicExpression returns nothing) and whether
\* its subscribeChanges throws.
Queries ==
  [kind : {"multi"}, limitNoOrder : BOOLEAN,
   lazy : [Sources -> BOOLEAN], orderBy : [Sources -> BOOLEAN],
   where : [Sources -> {"none", "ok", "bad"}],
   throws : [Sources -> BOOLEAN]]

InitLife ==
  /\ DriverAtRest
  /\ pc = "life"
  /\ status \in {"loading", "ready"}
  /\ cfg \in Queries
  /\ life = [pc |-> "new", err |-> "none",
             graphCache |-> 0, graphs |-> 0, finalized |-> {}, used |-> 0,
             reusedFinalized |-> FALSE, startedFrom |-> "none", starts |-> 0,
             next |-> 1, registered |-> {}, subscribedAll |-> FALSE,
             active |-> [s \in Sources |-> 0],
             subMode |-> [s \in Sources |-> <<>>],
             unsubs |-> [s \in Sources |-> 0],
             runs |-> 0, deliveries |-> 0]
  /\ loadedInitialState = FALSE
  /\ keyLoads = [k \in Keys |-> 0]
  /\ call = NoCall
  /\ biggestSent = <<>>
  /\ opLog = <<>>
  /\ orderByIndices = NoIndices
  /\ HashAtRest

lifeFixed == <<driverVars, pc, status, cfg, loadedInitialState, keyLoads, call, biggestSent,
               opLog, orderByIndices, hashVars>>

\* A variant that leaves the first compile to sync().
Create_CompileInSync ==
  /\ life.pc = "new"
  /\ life' = [life EXCEPT !.pc = "created"]
  /\ UNCHANGED lifeFixed

\* liveQueryCollectionOptions(config): compileBasePipeline() is called once so
\* that compile errors are thrown synchronously; compileQuery rejects LIMIT or
\* OFFSET without ORDER BY.
Create ==
  /\ life.pc = "new"
  /\ life' = IF cfg.limitNoOrder
             THEN [life EXCEPT !.pc = "rejected", !.err = "compile",
                               !.graphs = @ + 1]
             ELSE [life EXCEPT !.pc = "created", !.graphs = @ + 1,
                               !.graphCache = life.graphs + 1]
  /\ UNCHANGED lifeFixed

\* sync(): maybeCompileBasePipeline(), pipeline.pipe(output(...)), graph.finalize().
\* It is called for the first start, after a teardown, and again after a start
\* that threw.
Start ==
  /\ life.pc \in {"created", "stopped", "failed"}
  /\ life.starts < MaxStarts
  /\ LET compile == life.graphCache = 0
         g       == IF compile THEN life.graphs + 1 ELSE life.graphCache
         base    == [life EXCEPT !.starts = @ + 1, !.startedFrom = life.pc,
                                 !.graphs = IF compile THEN @ + 1 ELSE @,
                                 !.next = 1, !.registered = {},
                                 !.subscribedAll = FALSE, !.runs = 0,
                                 !.unsubs = [s \in Sources |-> 0],
                                 !.subMode = [s \in Sources |-> <<>>]]
     IN  life' = IF compile /\ cfg.limitNoOrder
                 THEN [base EXCEPT !.pc = "failed", !.err = "compile"]
                 ELSE [base EXCEPT !.pc = "starting", !.err = "none",
                                   !.graphCache = g, !.used = g,
                                   !.reusedFinalized = (g \in life.finalized),
                                   !.finalized = @ \cup {g}]
  /\ UNCHANGED lifeFixed

\* A variant of subscribeToChanges that looks for the order-by optimization
\* entry before it looks into lazyCollections.
subscribeToChanges_OrderedFirst(s) ==
  IF cfg.orderBy[s] THEN "ordered"
  ELSE IF cfg.lazy[s] THEN "lazy"
  ELSE "all"

\* The subscription subscribeToChanges makes for source s: to the matching
\* changes, to the ordered changes, or to all changes with their initial state.
subscribeToChanges(s) ==
  IF cfg.lazy[s] THEN "lazy"
  ELSE IF cfg.orderBy[s] THEN "ordered"
  ELSE "all"

\* A variant of the round that subscribes before it converts the WHERE.
SubscribeNext_SubscribeFirst ==
  /\ life.pc = "starting"
  /\ life.next <= MaxSrc
  /\ LET s == life.next
     IN  life' = IF cfg.throws[s]
                 THEN [life EXCEPT !.pc = "failed", !.err = "subscribe"]
                 ELSE IF cfg.where[s] = "bad"
                      THEN [life EXCEPT !.pc = "failed", !.err = "where",
                                        !.active[s] = @ + 1,
                                        !.registered = @ \cup {s}]
                      ELSE [life EXCEPT !.active[s] = @ + 1,
                                        !.subMode[s] = Append(@, subscribeToChanges(s)),
                                        !.registered = @ \cup {s},
                                        !.next = @ + 1]
  /\ UNCHANGED lifeFixed

\* One round of the forEach over the sources: the WHERE of the source is
\* converted, then subscribeToChanges subscribes in the mode of the source and
\* adds the unsubscribe to unsubscribeCallbacks. A throw leaves sync.
SubscribeNext ==
  /\ life.pc = "starting"
  /\ life.next <= MaxSrc
  /\ LET s == life.next
     IN  life' = IF cfg.where[s] = "bad"
                 THEN [life EXCEPT !.pc = "failed", !.err = "where"]
                 ELSE IF cfg.throws[s]
                      THEN [life EXCEPT !.pc = "failed", !.err = "subscribe"]
                      ELSE [life EXCEPT !.active[s] = @ + 1,
                                        !.subMode[s] = Append(@, subscribeToChanges(s)),
                                        !.registered = @ \cup {s},
                                        !.next = @ + 1]
  /\ UNCHANGED lifeFixed

\* After the forEach: subscribedToAllCollections = true and the initial maybeRunGraph().
FinishStart ==
  /\ life.pc = "starting"
  /\ life.next = MaxSrc + 1
  /\ life' = [life EXCEPT !.pc = "running", !.subscribedAll = TRUE,
                          !.runs = IF allCollectionsReadyOrInitialCommit THEN 1 ELSE 0]
  /\ UNCHANGED lifeFixed

\* A subscribed source delivers changes: its listener sends them to the input
\* and calls maybeRunGraph, which runs the graph of its session when every
\* source is ready and all sources of that session were subscribed.
Deliver ==
  /\ life.pc \in {"running", "failed", "stopped"}
  /\ life.deliveries < MaxCount
  /\ \E s \in Sources :
       /\ life.active[s] > 0
       /\ life' = [life EXCEPT !.deliveries = @ + 1,
                               !.runs = IF s \in life.registered /\ life.subscribedAll
                                           /\ allCollectionsReadyOrInitialCommit
                                        THEN Min(@ + 1, MaxCount + 1) ELSE @]
  /\ UNCHANGED lifeFixed

\* A variant of the teardown that keeps the caches.
Teardown_KeepCaches ==
  /\ life.pc = "running"
  /\ life' = [life EXCEPT !.pc = "stopped",
                          !.active = [s \in Sources |->
                                        IF s \in life.registered THEN @[s] - 1 ELSE @[s]],
                          !.unsubs = [s \in Sources |->
                                        IF s \in life.registered THEN @[s] + 1 ELSE @[s]]]
  /\ UNCHANGED lifeFixed

\* The function sync returned: every unsubscribe of unsubscribeCallbacks is
\* called, then the four caches are reset.
Teardown ==
  /\ life.pc = "running"
  /\ life' = [life EXCEPT !.pc = "stopped",
                          !.active = [s \in Sources |->
                                        IF s \in life.registered THEN @[s] - 1 ELSE @[s]],
                          !.unsubs = [s \in Sources |->
                                        IF s \in life.registered THEN @[s] + 1 ELSE @[s]],
                          !.graphCache = 0]
  /\ UNCHANGED lifeFixed

NextLife == Create \/ Start \/ SubscribeNext \/ FinishStart \/ Deliver \/ Teardown

SpecLife == InitLife /\ [][NextLife]_vars

\* ------------------------------------- a source subscribed in lazy mode
\* The keys of a loadKeys(keys) call are visited in key order.
RECURSIVE KeysFrom(_, _)
KeysFrom(K, k) ==
  IF k > MaxKey THEN <<>>
  ELSE (IF k \in K THEN <<k>> ELSE <<>>) \o KeysFrom(K, k + 1)

\* A variant of loadKeys that never looks at sentKeys.
RECURSIVE loadKeys_NoSentCheck(_, _, _, _)
loadKeys_NoSentCheck(ks, sent, s, wmin) ==
  IF ks = <<>> THEN [sent |-> sent, out |-> <<>>]
  ELSE LET key == Head(ks)
           inject == key \in DOMAIN s /\ Pass(CollectionGet(s, key), wmin)
           rest == loadKeys_NoSentCheck(Tail(ks), sent, s, wmin)
       IN  IF inject
           THEN [sent |-> rest.sent \cup {key},
                 out |-> <<InsertMsg(CollectionGet(s, key))>> \o rest.out]
           ELSE rest

\* loadKeys(keys): a key already in sentKeys is skipped; the others are looked
\* up with collection.get(key), and a value that exists and passes filterFn is
\* added to sentKeys and sent as an insert. The result holds the new sentKeys
\* and the inserts sent, in call order.
RECURSIVE loadKeys(_, _, _, _)
loadKeys(ks, sent, s, wmin) ==
  IF ks = <<>> THEN [sent |-> sent, out |-> <<>>]
  ELSE LET key == Head(ks)
           inject == /\ key \notin sent
                     /\ key \in DOMAIN s
                     /\ Pass(CollectionGet(s, key), wmin)
           rest == loadKeys(Tail(ks), IF inject THEN sent \cup {key} ELSE sent, s, wmin)
       IN  IF inject
           THEN [sent |-> rest.sent,
                 out |-> <<InsertMsg(CollectionGet(s, key))>> \o rest.out]
           ELSE rest

\* A variant of sendVisibleChangesToPipeline that masks once the initial state
\* was loaded instead of before.
RECURSIVE sendVisibleChangesToPipeline_MaskAfterLoad(_, _, _)
sendVisibleChangesToPipeline_MaskAfterLoad(changes, loaded, sent) ==
  IF ~loaded \/ changes = <<>> THEN changes
  ELSE LET c == Head(changes)
           rest == sendVisibleChangesToPipeline_MaskAfterLoad(Tail(changes), loaded, sent)
       IN  IF c.key \in sent THEN <<c>> \o rest
           ELSE IF c.type = "update" THEN <<[c EXCEPT !.type = "insert"]>> \o rest
           ELSE IF c.type = "delete" THEN rest
           ELSE <<c>> \o rest

\* A variant of sendVisibleChangesToPipeline that does not look into sentKeys.
RECURSIVE sendVisibleChangesToPipeline_MaskSent(_, _, _)
sendVisibleChangesToPipeline_MaskSent(changes, loaded, sent) ==
  IF loaded \/ changes = <<>> THEN changes
  ELSE LET c == Head(changes)
           rest == sendVisibleChangesToPipeline_MaskSent(Tail(changes), loaded, sent)
       IN  IF c.type = "update" THEN <<[c EXCEPT !.type = "insert"]>> \o rest
           ELSE IF c.type = "delete" THEN rest
           ELSE <<c>> \o rest

\* sendVisibleChangesToPipeline(changes): what is handed to
\* sendChangesToPipeline. With loadedInitialState set, the changes as they are;
\* otherwise, for a key that is not in sentKeys, an update becomes an insert
\* and a delete is dropped.
RECURSIVE sendVisibleChangesToPipeline(_, _, _)
sendVisibleChangesToPipeline(changes, loaded, sent) ==
  IF loaded \/ changes = <<>> THEN changes
  ELSE LET c == Head(changes)
           rest == sendVisibleChangesToPipeline(Tail(changes), loaded, sent)
       IN  IF c.key \in sent THEN <<c>> \o rest
           ELSE IF c.type = "update" THEN <<[c EXCEPT !.type = "insert"]>> \o rest
           ELSE IF c.type = "delete" THEN rest
           ELSE <<c>> \o rest

\* What a call left behind: its kind, its argument, sentKeys and
\* loadedInitialState as the call found them, the changes it handed to
\* sendChangesToPipeline and how often it called sendChangesToPipeline, each
\* call of which ends in maybeRunGraph.
CallRecord(kind, keys, changes, out, sends) ==
  [kind |-> kind, keys |-> keys, changes |-> changes,
   sentBefore |-> sentKeys, loadedBefore |-> loadedInitialState, out |-> out,
   sends |-> sends]

\* The source holds any rows when the query starts; the join pipeline that
\* consumes the input of this source is not part of this specification.
InitLazy ==
  /\ src \in SourceStates
  /\ status = "ready"
  /\ offset = 0
  /\ limit = 1
  /\ whereMin \in 0..1
  /\ indexed = FALSE
  /\ pc = "lazy-start"
  /\ subscribed = FALSE
  /\ hasCallback = FALSE
  /\ ready = FALSE
  /\ depth = 0
  /\ inputQ = <<>>
  /\ buffer = [r \in Rows |-> 0]
  /\ sentKeys = {}
  /\ biggest = <<>>
  /\ result = Empty
  /\ messagesCount = 0
  /\ termBatch = <<>>
  /\ hadKeys = {}
  /\ writes = <<>>
  /\ txOpen = FALSE
  /\ markedReady = FALSE
  /\ justMarked = FALSE
  /\ emptyCommit = FALSE
  /\ ops = 0
  /\ lastOp = NoOp
  /\ cfg = NoCfg
  /\ life = NoLife
  /\ loadedInitialState = FALSE
  /\ keyLoads = [k \in Keys |-> 0]
  /\ call = NoCall
  /\ biggestSent = <<>>
  /\ opLog = <<>>
  /\ orderByIndices = NoIndices
  /\ HashAtRest

lazyFixed == <<status, queryVars, hasCallback, ready, depth, inputQ, biggest,
               result, messagesCount, batchVars, txOpen, markedReady, justMarked,
               emptyCommit, lastOp, cfg, life, biggestSent, opLog, orderByIndices, hashVars>>

\* The state of the operator that consumes the input of the lazy source, once
\* the changes have been sent to it: per row, the sum of the multiplicities
\* it has received.
Received(changes) == ApplyTuples(buffer, sendChangesToInput(changes), 0)

\* subscribeToMatchingChanges(): the subscription is made with the
\* whereExpression only, so no initial state is delivered.
SubscribeLazy ==
  /\ pc = "lazy-start"
  /\ pc' = "lazy"
  /\ subscribed' = TRUE
  /\ call' = CallRecord("subscribe", {}, <<>>, <<>>, 0)
  /\ UNCHANGED <<src, sentKeys, loadedInitialState, keyLoads, ops, buffer, lazyFixed>>

\* The join operator asks for the rows of some keys: loadKeys(keys).
LoadKeys ==
  /\ pc = "lazy"
  /\ \E K \in SUBSET Keys \ {{}} :
       LET r == loadKeys(KeysFrom(K, 1), sentKeys, src, whereMin)
           loaded == {r.out[i].key : i \in 1..Len(r.out)}
       IN  /\ sentKeys' = r.sent
           /\ keyLoads' = [k \in Keys |->
                             IF k \in loaded THEN Min(keyLoads[k] + 1, MaxCount + 1)
                             ELSE keyLoads[k]]
           /\ call' = CallRecord("loadKeys", K, <<>>, r.out, Len(r.out))
           /\ buffer' = Received(r.out)
  /\ UNCHANGED <<src, pc, subscribed, loadedInitialState, ops, lazyFixed>>

\* A variant of loadInitialState() without the guard on the flag.
LoadInitialState_EveryCall ==
  /\ pc = "lazy"
  /\ loadedInitialState' = TRUE
  /\ call' = CallRecord("loadInitialState", {}, <<>>,
                        currentStateAsChanges(src, whereMin), 1)
  /\ buffer' = Received(currentStateAsChanges(src, whereMin))
  /\ UNCHANGED <<src, pc, subscribed, sentKeys, keyLoads, ops, lazyFixed>>

\* loadInitialState(): a no-op when it ran before; otherwise the flag is set
\* and the current state of the source that passes the where clause is sent.
LoadInitialState ==
  /\ pc = "lazy"
  /\ loadedInitialState' = TRUE
  /\ call' = CallRecord("loadInitialState", {}, <<>>,
                        IF loadedInitialState THEN <<>>
                        ELSE currentStateAsChanges(src, whereMin),
                        IF loadedInitialState THEN 0 ELSE 1)
  /\ buffer' = IF loadedInitialState THEN buffer
               ELSE Received(currentStateAsChanges(src, whereMin))
  /\ UNCHANGED <<src, pc, subscribed, sentKeys, keyLoads, ops, lazyFixed>>

\* The source changes and tells its subscriber, whose listener is
\* sendVisibleChanges.
ChangeLazy ==
  /\ pc = "lazy"
  /\ ops < MaxOps
  /\ \E c \in SourceChanges(src) :
       LET emitted == SourceEmit(c, whereMin)
       IN  /\ src' = SourceApply(src, c)
           /\ call' = CallRecord("change", {}, emitted,
                        sendVisibleChangesToPipeline(emitted, loadedInitialState, sentKeys),
                        1)
           /\ buffer' = Received(sendVisibleChangesToPipeline(emitted, loadedInitialState,
                                                              sentKeys))
  /\ ops' = ops + 1
  /\ UNCHANGED <<pc, subscribed, sentKeys, loadedInitialState, keyLoads, lazyFixed>>

NextLazy == SubscribeLazy \/ LoadKeys \/ LoadInitialState \/ ChangeLazy

SpecLazy == InitLazy /\ [][NextLazy]_vars

\* --------------------------------- the input boundary on any change list
\* The change messages a source can deliver: an update keeps the key of the row.
AllChanges ==
  {InsertMsg(r) : r \in Rows} \cup {DeleteMsg(r) : r \in Rows}
  \cup UNION {{UpdateMsg(old, new) : new \in {r \in Rows : r.key = old.key}} : old \in Rows}

\* The change lists of up to MaxBatch messages.
ChangeLists == UNION {[1..n -> AllChanges] : n \in 0..MaxBatch}

\* A change list is given; nothing has been applied to it yet.
InitFn ==
  /\ DriverAtRest
  /\ pc = "fn"
  /\ status = "ready"
  /\ cfg = NoCfg
  /\ life = NoLife
  /\ loadedInitialState = FALSE
  /\ keyLoads = [k \in Keys |-> 0]
  /\ call \in {[kind |-> "changes", changes |-> cs, out |-> <<>>] : cs \in ChangeLists}
  /\ biggestSent = <<>>
  /\ opLog = <<>>
  /\ orderByIndices = NoIndices
  /\ HashAtRest

fnFixed == <<driverVars, pc, status, cfg, life, loadedInitialState, keyLoads, biggestSent,
             opLog, orderByIndices, hashVars>>

\* sendChangesToInput(input, changes, getKey): the multiset handed to sendData.
ApplySendChangesToInput ==
  /\ pc = "fn"
  /\ call.kind = "changes"
  /\ call' = [call EXCEPT !.kind = "sendChangesToInput",
                          !.out = sendChangesToInput(call.changes)]
  /\ UNCHANGED fnFixed

\* splitUpdates(changes): the changes it yields.
ApplySplitUpdates ==
  /\ pc = "fn"
  /\ call.kind = "changes"
  /\ call' = [call EXCEPT !.kind = "splitUpdates",
                          !.out = splitUpdates(call.changes)]
  /\ UNCHANGED fnFixed

\* The ordered subscription sends what splitUpdates yields on to the input
\* (here with no biggest value set, so that the filter keeps every change).
ApplySplitThenSend ==
  /\ pc = "fn"
  /\ call.kind = "changes"
  /\ call' = [call EXCEPT !.kind = "splitThenSend",
                          !.out = sendChangesToInput(splitUpdates(call.changes))]
  /\ UNCHANGED fnFixed

NextFn == ApplySendChangesToInput \/ ApplySplitUpdates \/ ApplySplitThenSend

SpecFn == InitFn /\ [][NextFn]_vars

\* ------------------------- deliveries through the pipeline to the result
\* At most this many changes are delivered in one behaviour.
MaxDeliveries == MaxOps + 1

\* The batches that can be delivered: inserts and deletes of any rows.
InsertsAndDeletes == {c \in AllChanges : c.type # "update"}
DeliveryBatches == UNION {[1..n -> InsertsAndDeletes] : n \in 1..MaxBatch}

\* The top-K buffer that holds each passing row of source state s once.
BufferOf(s, wmin) ==
  [r \in Rows |-> IF r \in SourceRows(s) /\ Pass(r, wmin) THEN 1 ELSE 0]

\* The result collection the window of a buffer materializes to.
ResultOf(buf, off, lim) ==
  LET w == Window(buf, off, lim)
  IN  [k \in {w[i].key : i \in 1..Len(w)} |->
         (CHOOSE r \in {w[i] : i \in 1..Len(w)} : r.key = k).ord]

\* A query in all-changes mode whose source (of at most one row, to leave room
\* for the deliveries) was loaded and materialized; the
\* gate stays open, and deliveries need not come from the source collection.
InitPipe ==
  /\ src \in {s \in SourceStates : Cardinality(DOMAIN s) <= 1}
  /\ status = "ready"
  /\ offset \in 0..MaxOffset
  /\ limit \in 1..MaxLimit
  /\ whereMin \in 0..1
  /\ indexed = FALSE
  /\ pc = "pipe"
  /\ subscribed = TRUE
  /\ hasCallback = FALSE
  /\ ready = TRUE
  /\ depth = 0
  /\ inputQ = <<>>
  /\ buffer = BufferOf(src, whereMin)
  /\ sentKeys = {}
  /\ biggest = <<>>
  /\ result = ResultOf(buffer, offset, limit)
  /\ messagesCount = 0
  /\ termBatch = <<>>
  /\ hadKeys = {}
  /\ writes = <<>>
  /\ txOpen = FALSE
  /\ markedReady = TRUE
  /\ justMarked = FALSE
  /\ emptyCommit = FALSE
  /\ ops = 0
  /\ lastOp = NoOp
  /\ cfg = NoCfg
  /\ life = NoLife
  /\ loadedInitialState = FALSE
  /\ keyLoads = [k \in Keys |-> 0]
  /\ call = [kind |-> "deliveries", sent |-> <<>>, buffer |-> buffer, result |-> result]
  /\ biggestSent = <<>>
  /\ opLog = <<>>
  /\ orderByIndices = NoIndices
  /\ HashAtRest

pipeFixed == <<src, status, queryVars, subscribed, hasCallback, ready, depth, inputQ,
               trackerVars, markedReady, justMarked, emptyCommit, lastOp, cfg, life,
               loadedInitialState, keyLoads, biggestSent, opLog, orderByIndices, hashVars>>

\* sendChangesToPipeline(changes) with the gate open: the batch becomes tuples
\* on the input, graph.run() takes them through filter and top-K, and a
\* non-empty terminal batch reaches the output handler.
DeliverChanges ==
  /\ pc = "pipe"
  /\ \E cs \in DeliveryBatches :
       LET newBuf == ApplyTuples(buffer, sendChangesToInput(cs), whereMin)
           out    == TopKOutput(Window(buffer, offset, limit), Window(newBuf, offset, limit))
       IN  /\ ops + Len(cs) <= MaxDeliveries
           /\ ops' = ops + Len(cs)
           /\ call' = [call EXCEPT !.sent = @ \o cs]
           /\ buffer' = newBuf
           /\ IF out = <<>>
              THEN /\ pc' = "pipe"
                   /\ termBatch' = <<>>
                   /\ hadKeys' = {}
                   /\ writes' = <<>>
                   /\ UNCHANGED <<result, messagesCount, txOpen>>
              ELSE Output(out, "pipe")
  /\ UNCHANGED pipeFixed

NextPipe == DeliverChanges

SpecPipe == InitPipe /\ [][NextPipe]_vars

\* ------------------------------ the compare function of the result collection
\* Fractional indexes: the non-empty strings of up to MaxIdxLen characters over
\* a two-letter alphabet; <<>> stands for an index that is undefined.
MaxIdxLen == 2
IndexStrings == UNION {[1..n -> 1..2] : n \in 1..MaxIdxLen}

\* The result values the handler has emitted, one object per result key.
ResultValues == Keys

\* index1 < index2 on strings: by the first character that differs, a proper
\* prefix being smaller.
RECURSIVE StringLess(_, _)
StringLess(s, t) ==
  IF t = <<>> THEN FALSE
  ELSE IF s = <<>> THEN TRUE
  ELSE IF Head(s) # Head(t) THEN Head(s) < Head(t)
  ELSE StringLess(Tail(s), Tail(t))

\* A variant of compare that has no fallback for missing indexes and compares
\* them like the empty string.
compare_NoFallback(val1, val2) ==
  LET index1 == orderByIndices[val1]
      index2 == orderByIndices[val2]
  IN  IF StringLess(index1, index2) THEN 0 - 1
      ELSE IF StringLess(index2, index1) THEN 1
      ELSE 0

\* compare(val1, val2) of a query with ORDER BY.
compare(val1, val2) ==
  LET index1 == orderByIndices[val1]
      index2 == orderByIndices[val2]
  IN  IF index1 # <<>> /\ index2 # <<>>
      THEN IF StringLess(index1, index2) THEN 0 - 1
           ELSE IF StringLess(index2, index1) THEN 1
           ELSE 0
      ELSE 0

\* A query with or without ORDER BY; the output handler has stored nothing yet.
InitCmp ==
  /\ DriverAtRest
  /\ pc = "compare"
  /\ status = "ready"
  /\ cfg \in {[kind |-> "query", orderBy |-> b] : b \in BOOLEAN}
  /\ life = NoLife
  /\ loadedInitialState = FALSE
  /\ keyLoads = [k \in Keys |-> 0]
  /\ call = [kind |-> "none", stored |-> <<>>]
  /\ biggestSent = <<>>
  /\ opLog = <<>>
  /\ orderByIndices = NoIndices
  /\ HashAtRest

cmpFixed == <<driverVars, pc, status, cfg, life, loadedInitialState, keyLoads, biggestSent,
              opLog, hashVars>>

\* The forEach callback of the output handler for one key: the orderBy index
\* of the key's changes is stored for the value unless it is undefined, as it
\* always is for a query without ORDER BY.
StoreIndex ==
  /\ pc = "compare"
  /\ Len(call.stored) < MaxDeliveries
  /\ \E value \in ResultValues :
       \E orderByIndex \in (IF cfg.orderBy THEN IndexStrings ELSE {}) \cup {<<>>} :
         /\ orderByIndices' = IF orderByIndex # <<>>
                              THEN [orderByIndices EXCEPT ![value] = orderByIndex]
                              ELSE orderByIndices
         /\ call' = [kind |-> "store",
                     stored |-> Append(call.stored, [value |-> value, index |-> orderByIndex])]
  /\ UNCHANGED cmpFixed

\* The result collection calls compare on two of its values, in both orders;
\* without ORDER BY the config holds no compare function to call.
CallCompare ==
  /\ pc = "compare"
  /\ cfg.orderBy
  /\ \E val1 \in ResultValues, val2 \in ResultValues :
       call' = [kind |-> "compare", stored |-> call.stored, val1 |-> val1, val2 |-> val2,
                out |-> compare(val1, val2), back |-> compare(val2, val1)]
  /\ UNCHANGED <<cmpFixed, orderByIndices>>

NextCmp == StoreIndex \/ CallCompare

SpecCmp == InitCmp /\ [][NextCmp]_vars

\* --------------------------------------------------- the structural hash
\* The objects handed to hash() and the properties a plain object can have.
MaxObj == 2
MaxProps == 2
MaxMutations == 1
Objs == 1..MaxObj

\* Property names: "a", and the letter e-acute written as one code point and
\* as e followed by a combining accent, two strings that are canonically
\* equivalent. Numbers: 0, -0, 1 and two NaN values.
PropNames == {"a", "e-acute", "e+acute"}
PropValues == {"0", "1"}
Numbers == {"0", "-0", "1", "NaN", "-NaN"}

\* Plain objects list their properties in insertion order.
PropLists ==
  UNION {{f \in [1..n -> [key : PropNames, value : PropValues]] :
            \A i, j \in 1..n : f[i].key = f[j].key => i = j} : n \in 0..MaxProps}
Objects ==
  {[kind |-> "plain", props |-> f] : f \in PropLists}
  \cup {[kind |-> "date", time |-> t] : t \in Vals}
  \cup {[kind |-> "bytes", data |-> b] : b \in Vals}
  \cup {[kind |-> "function"]}

\* What hash() can be called with: an object or a number.
Inputs == {[type |-> "object", ref |-> o] : o \in Objs}
          \cup {[type |-> "number", num |-> n] : n \in Numbers}

\* a.localeCompare(b): by collation key; canonically equivalent strings
\* compare as equal.
CollationKey(k) == IF k = "a" THEN 1 ELSE 2
keySort(a, b) ==
  IF CollationKey(a) < CollationKey(b) THEN 0 - 1
  ELSE IF CollationKey(a) > CollationKey(b) THEN 1
  ELSE 0

\* keys.sort(keySort): the sort is stable.
RECURSIVE InsertSorted(_, _)
InsertSorted(sorted, p) ==
  IF sorted = <<>> THEN <<p>>
  ELSE IF keySort(p.key, sorted[Len(sorted)].key) < 0
       THEN Append(InsertSorted(SubSeq(sorted, 1, Len(sorted) - 1), p), sorted[Len(sorted)])
       ELSE Append(sorted, p)
RECURSIVE SortedProps(_)
SortedProps(props) ==
  IF props = <<>> THEN <<>>
  ELSE InsertSorted(SortedProps(SubSeq(props, 1, Len(props) - 1)), props[Len(props)])

\* What updateHasher feeds the hasher for a number: NaN for every NaN, 0 for
\* 0 and -0, the number itself otherwise.
NumberItem(n) == IF n \in {"NaN", "-NaN"} THEN "NaN" ELSE IF n \in {"0", "-0"} THEN "0" ELSE n

\* A digest stands for the sequence of updates that produced it: distinct
\* sequences give distinct digests.
RECURSIVE PropUpdates(_)
PropUpdates(props) ==
  IF props = <<>> THEN <<>>
  ELSE <<"KEY", Head(props).key, NumberItem(Head(props).value)>> \o PropUpdates(Tail(props))

hashPlainObject(input, marker) == <<marker>> \o PropUpdates(SortedProps(input.props))

hashDate(input) == <<"DATE_MARKER", input.time>>

\* A variant of the reference hash that does not use the counter.
ReferenceHash_NoCounter(id) == <<"FUNCTIONS", 1>>

\* nextRefId ^ FUNCTIONS
ReferenceHash(id) == <<"FUNCTIONS", id>>

\* hashObject(input) on a cache miss: the hash, and whether nextRefId is used.
ByReference(obj) == obj.kind \in {"bytes", "function"}
ValueHash(obj, refId) ==
  IF obj.kind = "date" THEN hashDate(obj)
  ELSE IF ByReference(obj) THEN ReferenceHash(refId)
  ELSE hashPlainObject(obj, "OBJECT_MARKER")

\* hash(input) on the state [heap, hashCache, nextRefId]: the digest and the
\* state it leaves. An object is looked up in hashCache first.
hash(input, st) ==
  IF input.type = "number"
  THEN [out |-> <<NumberItem(input.num)>>, cache |-> st.cache, next |-> st.next]
  ELSE LET o == input.ref
       IN  IF st.cache[o] # <<>>
           THEN [out |-> <<st.cache[o][1]>>, cache |-> st.cache, next |-> st.next]
           ELSE LET h == ValueHash(heap[o], st.next)
                IN  [out |-> <<h>>,
                     cache |-> [st.cache EXCEPT ![o] = <<h>>],
                     next |-> IF ByReference(heap[o]) THEN st.next + 1 ELSE st.next]

\* Some objects exist; nothing has been hashed.
InitHash ==
  /\ DriverAtRest
  /\ pc = "hash"
  /\ status = "ready"
  /\ cfg = NoCfg
  /\ life = NoLife
  /\ loadedInitialState = FALSE
  /\ keyLoads = [k \in Keys |-> 0]
  /\ call = NoCall
  /\ biggestSent = <<>>
  /\ opLog = <<>>
  /\ orderByIndices = NoIndices
  /\ heap \in [Objs -> Objects]
  /\ hashCache = [o \in Objs |-> <<>>]
  /\ nextRefId = 1

hashFixed == <<src, status, queryVars, pc, subscribed, hasCallback, ready, depth, inputQ,
               buffer, trackerVars, result, messagesCount, batchVars, txOpen, markedReady,
               justMarked, emptyCommit, lastOp, cfg, life, loadedInitialState, keyLoads,
               biggestSent, opLog, orderByIndices>>

\* hash(input) is called.
Hash ==
  /\ pc = "hash"
  /\ \E input \in Inputs :
       LET r == hash(input, [cache |-> hashCache, next |-> nextRefId])
       IN  /\ hashCache' = r.cache
           /\ nextRefId' = r.next
           /\ call' = [kind |-> "hash", input |-> input, out |-> r.out]
  /\ UNCHANGED <<hashFixed, heap, ops>>

\* The program changes an object it has: it sets or deletes a property of a
\* plain object, sets the time of a Date, or writes into a byte buffer.
MutateObject ==
  /\ pc = "hash"
  /\ ops < MaxMutations
  /\ \E o \in Objs : \E new \in Objects :
       /\ new # heap[o]
       /\ new.kind = heap[o].kind
       /\ new.kind = "plain" =>
            \/ \E i \in 1..Len(heap[o].props) : \E v \in PropValues :
                 new.props = [heap[o].props EXCEPT ![i].value = v]
            \/ \E p \in [key : PropNames, value : PropValues] :
                 new.props = Append(heap[o].props, p)
            \/ \E i \in 1..Len(heap[o].props) :
                 new.props = SubSeq(heap[o].props, 1, i - 1)
                             \o SubSeq(heap[o].props, i + 1, Len(heap[o].props))
       /\ heap' = [heap EXCEPT ![o] = new]
  /\ ops' = ops + 1
  /\ call' = [kind |-> "mutate"]
  /\ UNCHANGED <<hashFixed, hashCache, nextRefId>>

NextHash == Hash \/ MutateObject

SpecHash == InitHash /\ [][NextHash]_vars

\* ---------------------------------------------------------- properties
\* Full re-evaluation of the query over the source: the passing rows, sorted by
\* the comparator with the key as tie-break, cut to [offset, offset + limit).
Eval(s, off, lim, wmin) ==
  LET sorted == SortRows({r \in SourceRows(s) : Pass(r, wmin)})
      win    == SubSeq(sorted, off + 1, Min(off + lim, Len(sorted)))
  IN  [k \in {win[i].key : i \in 1..Len(win)} |-> s[k]]

\* The outermost maybeRunGraph of a handler has run the graph and its callback.
Processed == pc = "finish" /\ depth = 0 /\ inputQ = <<>>

\* loadMoreIfNeeded is about to load for a non-zero dataNeeded() and the index
\* has nothing after the biggest sent value.
NothingToLoad ==
  /\ pc = "callback"
  /\ hasCallback
  /\ DataNeeded(buffer, offset, limit) > 0
  /\ NextInserts(src, DataNeeded(buffer, offset, limit), biggest) = <<>>

\* C1: once a source change (or the start) has been fully processed, the result
\* collection equals the full re-evaluation of the query over the source.
C1_ResultIsEval ==
  Processed => result = Eval(src, offset, limit, whereMin)

\* How many rows of a key -> value map carry each order value.
OrdCounts(f) == [v \in Vals |-> Cardinality({k \in DOMAIN f : f[k] = v})]

\* The top-K buffer holds current source rows only, each once.
BufferFromSource ==
  \A r \in Rows : buffer[r] <= (IF r \in SourceRows(src) THEN 1 ELSE 0)

\* C2: in ordered mode without WHERE, once a change has been fully processed the
\* result holds rows of the source whose order values are those of the ranks
\* [offset, offset + limit) of the source, whichever way ties are broken.
C2_OrderedWindow ==
  (Processed /\ indexed /\ whereMin = 0 /\ BufferFromSource)
    => /\ \A k \in DOMAIN result : k \in DOMAIN src /\ result[k] = src[k]
       /\ OrdCounts(result) = OrdCounts(Eval(src, offset, limit, 0))

\* The index still has a row after the biggest value sent.
IndexHasMore == NextInserts(src, 1, biggest) # <<>>

\* C3: markReady() is called only when the source is ready and, in ordered mode
\* with rows left in the index, dataNeeded() is 0.
C3_ReadyOnlyWhenFilled ==
  justMarked =>
    (status = "ready" /\ ((indexed /\ IndexHasMore) => DataNeeded(buffer, offset, limit) = 0))

\* C4: the pull loop stops when the index has no more rows: a load that returns
\* nothing is not followed by another graph run.
C4_EmptyLoadStops ==
  [][NothingToLoad => pc' # "run"]_vars

\* C5: after every graph run of an ordered subscription, a non-zero dataNeeded()
\* with rows left in the index makes the driver load the next rows from the index
\* and run the graph again.
C5_ProbeAfterEveryRun ==
  [][(pc = "callback" /\ indexed /\ DataNeeded(buffer, offset, limit) > 0 /\ IndexHasMore)
       => (pc' = "run" /\
           inputQ' = sendChangesToInput(
                       NextInserts(src, DataNeeded(buffer, offset, limit), biggest)))]_vars

\* C6: with WHERE, ORDER BY and LIMIT, after startup the result holds the first
\* rows in sort order that pass the WHERE.
C6_StartupFirstPassing ==
  (Processed /\ lastOp.type = "start" /\ indexed /\ whereMin > 0)
    => result = Eval(src, offset, limit, whereMin)

RECURSIVE NetInserts(_, _)
NetInserts(b, k) ==
  IF b = <<>> THEN 0
  ELSE (IF Head(b).key = k /\ Head(b).mult > 0 THEN Head(b).mult ELSE 0)
       + NetInserts(Tail(b), k)

RECURSIVE NetDeletes(_, _)
NetDeletes(b, k) ==
  IF b = <<>> THEN 0
  ELSE (IF Head(b).key = k /\ Head(b).mult < 0 THEN 0 - Head(b).mult ELSE 0)
       + NetDeletes(Tail(b), k)

\* The value of the last tuple of the batch that inserts the key.
LastInserted(b, k) ==
  LET I == {i \in 1..Len(b) : b[i].key = k /\ b[i].mult > 0}
  IN  b[CHOOSE i \in I : \A j \in I : j <= i].value

BatchKeys == {termBatch[i].key : i \in 1..Len(termBatch)}

\* The handler reached the key: it wrote for it, or threw on it.
Reached(k) == \E i \in 1..Len(writes) : writes[i].key = k
EntryOf(k) == writes[CHOOSE i \in 1..Len(writes) : writes[i].key = k]

\* C8: for a key the handler reaches, one insert and no delete on an absent key
\* writes an insert with the inserted value; as many inserts as deletes (at least
\* one) on a present key writes an update with the last inserted value; deletes
\* without inserts write a delete. A handler that does not throw reaches every key.
C8_InsertUpdateDelete ==
  /\ \A k \in BatchKeys :
       Reached(k) =>
         LET ins == NetInserts(termBatch, k)
             del == NetDeletes(termBatch, k)
             w   == EntryOf(k)
         IN  /\ (ins = 1 /\ del = 0 /\ k \notin hadKeys)
                  => (w.type = "insert" /\ w.value = LastInserted(termBatch, k))
             /\ (ins = del /\ ins > 0 /\ k \in hadKeys)
                  => (w.type = "update" /\ w.value = LastInserted(termBatch, k))
             /\ (del > 0 /\ ins = 0) => w.type = "delete"
  /\ pc = "done" => \A k \in BatchKeys : Reached(k)

\* C8 witness: a batch with equal inserts and deletes for a present key was
\* written as an update.
C8_Witness ==
  /\ pc = "done"
  /\ \E k \in BatchKeys :
       /\ k \in hadKeys
       /\ NetInserts(termBatch, k) = NetDeletes(termBatch, k)
       /\ NetInserts(termBatch, k) > 0
       /\ EntryOf(k).type = "update"

\* C9 as stated: more inserts than deletes writes an update when the key is
\* present and an insert when it is absent.
C9_ByPresence ==
  \A k \in BatchKeys :
    (Reached(k) /\ NetInserts(termBatch, k) > NetDeletes(termBatch, k))
      => EntryOf(k).type = (IF k \in hadKeys THEN "update" ELSE "insert")

\* C9 amended: more inserts than deletes writes an insert when the batch has no
\* delete for the key and an update when it has one, whether or not the key is
\* present; the write carries the last inserted value.
C9_ByDeletes ==
  \A k \in BatchKeys :
    (Reached(k) /\ NetInserts(termBatch, k) > NetDeletes(termBatch, k))
      => /\ EntryOf(k).type = (IF NetDeletes(termBatch, k) = 0 THEN "insert" ELSE "update")
         /\ EntryOf(k).value = LastInserted(termBatch, k)

\* C9 witness: more inserts than deletes, with a delete, for an absent key was
\* written as an update.
C9_Witness ==
  /\ pc = "done"
  /\ \E k \in BatchKeys :
       /\ k \notin hadKeys
       /\ NetInserts(termBatch, k) > NetDeletes(termBatch, k)
       /\ NetDeletes(termBatch, k) > 0
       /\ EntryOf(k).type = "update"

\* The combinations of C8 and C9: one of them has a write of its own.
Listed(ins, del, has) ==
  \/ (ins = 1 /\ del = 0 /\ ~has)
  \/ (ins = del /\ ins > 0 /\ has)
  \/ ins > del
  \/ (del > 0 /\ ins = 0)

C12_EmptySourceReady ==
  /\ []((lastOp.type = "start" /\ src = Empty /\ status = "ready")
          => (pc \in {"run", "callback", "finish"} /\ depth = 0 /\ result = Empty))
  /\ [][(pc = "finish" /\ lastOp.type = "start" /\ src = Empty /\ status = "ready")
          => (justMarked' /\ markedReady' /\ result' = Empty /\ pc' = "idle")]_vars

\* C12 witness: the start on an empty, ready source has returned, the result is
\* empty and markReady() has just been called.
C12_Witness ==
  /\ pc = "idle" /\ subscribed /\ ops = 0
  /\ src = Empty /\ status = "ready"
  /\ result = Empty
  /\ justMarked /\ markedReady

\* C13: a query with LIMIT or OFFSET and no ORDER BY is rejected with the
\* compile error while the live query collection is created: it never gets past
\* creation, no source is ever subscribed and no graph run happens.
C13_RejectedAtCreation ==
  cfg.limitNoOrder =>
    /\ life.pc \in {"new", "rejected"}
    /\ life.pc = "rejected" => life.err = "compile"
    /\ life.starts = 0 /\ life.runs = 0
    /\ \A s \in Sources : life.active[s] = 0

\* C13 witness: such a query has been rejected.
C13_Witness == cfg.limitNoOrder /\ life.pc = "rejected" /\ life.err = "compile"

\* C14: after a teardown every unsubscribe registered by the session has been
\* called exactly once, no subscription of the session is left and the caches
\* are empty; a start that follows a teardown uses a graph that had not been
\* finalized.
C14_TeardownThenFresh ==
  /\ life.pc = "stopped" =>
       /\ \A s \in Sources : life.unsubs[s] = (IF s \in life.registered THEN 1 ELSE 0)
       /\ life.registered = Sources
       /\ \A s \in Sources : life.active[s] = 0
       /\ life.graphCache = 0
  /\ (life.pc \in {"starting", "running"} /\ life.startedFrom = "stopped")
       => (~life.reusedFinalized /\ life.used = life.graphs)

\* C14 witness: a session started after a teardown is running on a fresh graph.
C14_Witness ==
  /\ life.pc = "running" /\ life.startedFrom = "stopped"
  /\ life.used = 2 /\ ~life.reusedFinalized

\* C15: when the subscribe call of a source threw during start, no subscription
\* of another source is left.
C15_ThrowUnsubscribesOthers ==
  (life.pc = "failed" /\ life.err = "subscribe") => \A s \in Sources : life.active[s] = 0

\* C16: when the WHERE of a source cannot be converted, start fails with the
\* error at that source, that source has no subscription, and the session runs
\* no graph.
C16_BadWhereFailsStart ==
  life.err = "where" =>
    /\ life.pc = "failed"
    /\ cfg.where[life.next] = "bad"
    /\ life.active[life.next] = 0
    /\ life.runs = 0 /\ ~life.subscribedAll

\* C16 witness: the second source has the WHERE that cannot be converted, the
\* first one was subscribed and has delivered a change since.
C16_Witness ==
  /\ life.err = "where" /\ life.next = 2
  /\ life.active[1] > 0 /\ life.deliveries > 0
  /\ status = "ready"

\* The keys a loadKeys call was asked for that had not been sent and whose row
\* exists in the source and passes the where clause.
Loadable(K, sent) ==
  {k \in K \ sent : k \in DOMAIN src /\ src[k] >= whereMin}

\* C17: in lazy mode subscribing sends no initial state; loadKeys(keys) sends
\* exactly one insert, carrying the source's row, for every requested key that
\* was not sent before and whose row exists and passes the filter, and marks
\* exactly those keys as sent; over all calls a key is injected at most once.
C17_LoadKeysOnce ==
  /\ call.kind = "subscribe" => (call.out = <<>> /\ sentKeys = {})
  /\ call.kind = "loadKeys" =>
       LET want == Loadable(call.keys, call.sentBefore)
       IN  /\ Len(call.out) = Cardinality(want)
           /\ \A k \in want :
                \E i \in 1..Len(call.out) :
                  /\ call.out[i].type = "insert"
                  /\ call.out[i].key = k
                  /\ call.out[i].value = [key |-> k, ord |-> src[k]]
           /\ sentKeys = call.sentBefore \cup want
  /\ \A k \in Keys : keyLoads[k] <= 1

\* A second loadKeys call asks again for a key that was injected earlier, for a
\* key that has no row and for a key whose row fails the filter.
C17_Witness ==
  /\ call.kind = "loadKeys"
  /\ call.out = <<>>
  /\ \E k \in call.keys : k \in call.sentBefore /\ keyLoads[k] = 1 /\ k \in DOMAIN src
  /\ \E k \in call.keys : k \notin DOMAIN src /\ k \notin sentKeys
  /\ \E k \in call.keys : k \in DOMAIN src /\ src[k] < whereMin /\ k \notin sentKeys

\* The changes of a sequence, as a set.
Range(f) == {f[i] : i \in DOMAIN f}

\* The live changes of the last call that are for keys not in sentKeys.
UnsentChanges == {c \in Range(call.changes) : c.key \notin call.sentBefore}

\* An update for an unsent key went out as an insert and a delete for an unsent
\* key was dropped.
MaskedWithSentKeys ==
  \A c \in UnsentChanges :
    /\ c.type = "update" =>
         (c \notin Range(call.out) /\ [c EXCEPT !.type = "insert"] \in Range(call.out))
    /\ c.type = "delete" => c \notin Range(call.out)

\* C18 as stated: once loadInitialState() has been called, live changes are
\* masked with sentKeys (an update for an unsent key is forwarded as an insert,
\* a delete for an unsent key is dropped).
C18_MaskedAfterLoad ==
  (call.kind = "change" /\ call.loadedBefore) => MaskedWithSentKeys

\* C18 amended: live changes are masked with sentKeys while loadInitialState()
\* has not been called; once it has been called every live change is forwarded
\* as it is.
C18_MaskedUntilLoad ==
  call.kind = "change" =>
    IF call.loadedBefore THEN call.out = call.changes ELSE MaskedWithSentKeys

\* After loadInitialState() an update and a delete for unsent keys were
\* forwarded as they came; before it, one such change was masked.
C18_Witness ==
  /\ call.kind = "change"
  /\ call.loadedBefore
  /\ \E c \in UnsentChanges : c.type \in {"update", "delete"} /\ c \in Range(call.out)

C18_WitnessBefore ==
  /\ call.kind = "change"
  /\ ~call.loadedBefore
  /\ \E c \in UnsentChanges : c.type = "update" /\ call.out = <<[c EXCEPT !.type = "insert"]>>

\* The number of outputs the first n changes of the last call stand for, an
\* update counting for two.
RECURSIVE OutputsBefore(_)
OutputsBefore(n) ==
  IF n = 0 THEN 0
  ELSE OutputsBefore(n - 1) + (IF call.changes[n].type = "update" THEN 2 ELSE 1)

\* The signed tuple of a row.
SignedTuple(r, m) == [key |-> r.key, value |-> r, mult |-> m]

\* The outputs for each change start where those of the changes before end,
\* and are: +1 for an insert, -1 for a delete, and for an update -1 for
\* previousValue followed by +1 for value, all keyed by the key of value.
TuplesInOrder ==
  /\ Len(call.out) = OutputsBefore(Len(call.changes))
  /\ \A i \in 1..Len(call.changes) :
       LET c == call.changes[i]
           at == OutputsBefore(i - 1)
       IN  /\ c.type = "insert" => call.out[at + 1] = SignedTuple(c.value, 1)
           /\ c.type = "delete" => call.out[at + 1] = SignedTuple(c.value, 0 - 1)
           /\ c.type = "update" =>
                /\ call.out[at + 1] = [SignedTuple(c.previousValue, 0 - 1) EXCEPT !.key = c.value.key]
                /\ call.out[at + 2] = SignedTuple(c.value, 1)

\* C19: sendChangesToInput turns an insert into one +1 tuple, a delete into one
\* -1 tuple and an update into (-1 previousValue, +1 value) in that order, keyed
\* by getKey(value); splitUpdates turns an update into delete(previousValue)
\* then insert(value), leaves the other changes and the order as they are, and
\* its output gives the same tuples at the input as the unsplit changes.
C19_SignedTuples ==
  /\ call.kind \in {"sendChangesToInput", "splitThenSend"} => TuplesInOrder
  /\ call.kind = "splitUpdates" =>
       /\ Len(call.out) = OutputsBefore(Len(call.changes))
       /\ \A i \in 1..Len(call.changes) :
            LET c == call.changes[i]
                at == OutputsBefore(i - 1)
            IN  IF c.type = "update"
                THEN /\ call.out[at + 1].type = "delete"
                     /\ call.out[at + 1].key = c.key
                     /\ call.out[at + 1].value = c.previousValue
                     /\ call.out[at + 2].type = "insert"
                     /\ call.out[at + 2].key = c.key
                     /\ call.out[at + 2].value = c.value
                ELSE call.out[at + 1] = c

\* An update that changes the order value, followed by a delete, went through
\* sendChangesToInput.
C19_Witness ==
  /\ call.kind = "sendChangesToInput"
  /\ Len(call.changes) = 2
  /\ call.changes[1].type = "update"
  /\ call.changes[1].previousValue # call.changes[1].value
  /\ call.changes[2].type = "delete"
  /\ Len(call.out) = 3

\* The tuple of a row if the row is not beyond max (<<>>: no max), else nothing.
TupleUpTo(r, m, max) ==
  IF max = <<>> \/ r.ord <= max[1].ord THEN <<SignedTuple(r, m)>> ELSE <<>>

\* What reaches the input for a live change when each of its halves is
\* forwarded if and only if there is no max or its row is not beyond max.
ForwardedUpTo(e, max) ==
  IF e = <<>> THEN <<>>
  ELSE IF e[1].type = "insert" THEN TupleUpTo(e[1].value, 1, max)
  ELSE IF e[1].type = "delete" THEN TupleUpTo(e[1].value, 0 - 1, max)
  ELSE TupleUpTo(e[1].previousValue, 0 - 1, max) \o TupleUpTo(e[1].value, 1, max)

LiveChangeWhileUnderfilled ==
  /\ indexed
  /\ pc = "idle"
  /\ subscribed
  /\ src' # src
  /\ inputQ = <<>>
  /\ DataNeeded(buffer, offset, limit) > 0

RoundTripInOne ==
  Len(opLog) >= 1 /\ opLog[1].change.type = "insert-delete" /\ opLog[1].quiet

RoundTripInTwo ==
  /\ Len(opLog) = 2
  /\ opLog[2].change.type = "insert"
  /\ opLog[1].change.type = "delete"
  /\ opLog[1].change.value = opLog[2].change.value
  /\ opLog[2].quiet

\* The driver has returned from the handler of the last delivery.
Returned == pc = "idle" \/ Processed

\* C22: once an insert of a row and the delete of the same row have been
\* handled, in one batch or in two successive batches, the result collection
\* is what it was before the insert, for the key of the row and for any other.
C22_RoundTripUnchanged ==
  /\ (Returned /\ RoundTripInOne) => result = opLog[1].result
  /\ (Returned /\ RoundTripInTwo) => result = opLog[2].result

\* Two successive batches: the inserted row was materialized in between and is
\* gone again.
C22_Witness ==
  /\ pc = "idle"
  /\ inputQ = <<>>
  /\ RoundTripInTwo
  /\ opLog[2].change.key \notin DOMAIN opLog[2].result
  /\ opLog[2].change.key \in DOMAIN opLog[1].result
  /\ opLog[2].result # Empty
  /\ result = opLog[2].result

\* One batch: both changes were forwarded and the graph has run on them.
C22_WitnessOneBatch ==
  /\ Processed
  /\ lastOp.type = "insert-delete"
  /\ RoundTripInOne
  /\ result # Empty

\* The buffer and the result collection after the changes cs were delivered as
\* one batch to a pipeline with buffer buf and result res.
AfterBatch(buf, res, cs) ==
  LET newBuf == ApplyTuples(buf, sendChangesToInput(cs), whereMin)
      out    == TopKOutput(Window(buf, offset, limit), Window(newBuf, offset, limit))
  IN  [buffer |-> newBuf,
       result |-> IF out = <<>> THEN res ELSE ApplyWrites(res, OutputWrites(out, res))]

\* All that was delivered is: an insert of a row that was not there, the same
\* insert again, and one delete of that row.
InsertTwiceDeleteOnce ==
  /\ call.kind = "deliveries"
  /\ Len(call.sent) = 3
  /\ call.sent[1].type = "insert"
  /\ call.sent[2] = call.sent[1]
  /\ call.sent[3] = [call.sent[1] EXCEPT !.type = "delete"]
  /\ call.buffer[call.sent[1].value] = 0

\* C23: after the same insert was delivered twice and then one delete of that
\* row, the result collection equals the one after a single delivery of the
\* insert; the row is still present when the single insert materializes it.
C23_InsertTwiceDeleteOnce ==
  (InsertTwiceDeleteOnce /\ pc = "pipe") =>
    result = AfterBatch(call.buffer, call.result, <<call.sent[1]>>).result

\* The fractional index last stored for a value among the first n stores, <<>>
\* when none was.
RECURSIVE LastStored(_, _)
LastStored(v, n) ==
  IF n = 0 THEN <<>>
  ELSE IF call.stored[n].value = v /\ call.stored[n].index # <<>>
       THEN call.stored[n].index
       ELSE LastStored(v, n - 1)

\* s comes before t in the lexicographic order of strings.
LexBefore(s, t) ==
  \E i \in 1..Len(t) :
    /\ \A j \in 1..(i - 1) : j <= Len(s) /\ s[j] = t[j]
    /\ i = Len(s) + 1 \/ (i <= Len(s) /\ s[i] < t[i])

\* C24: with ORDER BY, compare orders two result values by the lexicographic
\* order of the fractional indexes last stored for them (-1, 0 or 1), is
\* antisymmetric, and returns 0 when either value has no stored index; without
\* ORDER BY there is no compare function, so none is ever called.
C24_CompareByLastIndex ==
  /\ call.kind = "compare" =>
       LET i1 == LastStored(call.val1, Len(call.stored))
           i2 == LastStored(call.val2, Len(call.stored))
       IN  /\ cfg.orderBy
           /\ call.out \in {0 - 1, 0, 1}
           /\ call.back = 0 - call.out
           /\ (i1 = <<>> \/ i2 = <<>>) => call.out = 0
           /\ (i1 # <<>> /\ i2 # <<>>) =>
                /\ call.out = 0 - 1 <=> LexBefore(i1, i2)
                /\ call.out = 1 <=> LexBefore(i2, i1)
                /\ call.out = 0 <=> i1 = i2
  /\ ~cfg.orderBy => (call.kind # "compare" /\ orderByIndices = NoIndices)

\* Two values whose indexes were stored, one of them twice, the later index
\* being a proper prefix of the other value's index, were compared.
C24_Witness ==
  /\ call.kind = "compare"
  /\ call.out = 0 - 1
  /\ Len(call.stored) = 3
  /\ call.stored[1].value = call.val1
  /\ call.stored[3].value = call.val1
  /\ call.stored[1].index # call.stored[3].index
  /\ call.stored[2].value = call.val2
  /\ Len(call.stored[3].index) < Len(call.stored[2].index)
  /\ LexBefore(call.stored[2].index, call.stored[1].index)

\* C25: in one start each source is subscribed at most once, and exactly once
\* when the start completes; the subscription is lazy-matching for a source in
\* lazyCollections, otherwise ordered-bounded for a source with an order-by
\* optimization entry, otherwise all-changes with the initial state; one
\* unsubscribe is registered for each subscription made.
C25_OneSubscriptionPerSource ==
  pc = "life" =>
    \A s \in Sources :
      /\ Len(life.subMode[s]) <= 1
      /\ s \in life.registered <=> Len(life.subMode[s]) = 1
      /\ life.pc = "running" => Len(life.subMode[s]) = 1
      /\ life.subMode[s] # <<>> =>
           /\ cfg.lazy[s] => life.subMode[s][1] = "lazy"
           /\ (~cfg.lazy[s] /\ cfg.orderBy[s]) => life.subMode[s][1] = "ordered"
           /\ (~cfg.lazy[s] /\ ~cfg.orderBy[s]) => life.subMode[s][1] = "all"

\* A second start completed for a query whose first source is lazy and has an
\* order-by optimization entry and whose other sources are not lazy.
C25_Witness ==
  /\ pc = "life"
  /\ life.pc = "running"
  /\ life.starts = 2
  /\ cfg.lazy[1] /\ cfg.orderBy[1]
  /\ \A s \in Sources \ {1} : ~cfg.lazy[s]
  /\ \E s \in Sources : life.subMode[s] = <<"ordered">>
  /\ life.registered = Sources

\* The batch b with its tuples in the order f, and the orders of n tuples.
Permuted(b, f) == [i \in 1..Len(b) |-> b[f[i]]]
Orders(n) == {f \in [1..n -> 1..n] : \A i, j \in 1..n : f[i] = f[j] => i = j}

\* What the forEach callback gets for key k of batch b, and the branch it takes.
ChangesOf(b, k) == ReduceMessages(b)[AccIndex(ReduceMessages(b), k)]
TypeOf(b, k) == WriteType(ChangesOf(b, k), k \in hadKeys)

\* C26: the order of the tuples of a terminal batch does not change what is
\* written: in every order of the tuples each key of the batch takes the same
\* branch (the write that was made when the handler did not throw), and a key
\* with exactly one positive tuple gets the same value and the same fractional
\* index.
C26_TupleOrderIrrelevant ==
  (pc \in {"done", "error"} /\ termBatch # <<>>) =>
    \A f \in Orders(Len(termBatch)) :
      LET p == Permuted(termBatch, f)
      IN  /\ Threw(OutputWrites(p, [k \in hadKeys |-> 0])) <=> Threw(writes)
          /\ \A i \in 1..Len(termBatch) :
               LET k == termBatch[i].key
               IN  /\ TypeOf(p, k) = TypeOf(termBatch, k)
                   /\ ~Threw(writes) =>
                        \E j \in 1..Len(writes) :
                          writes[j].key = k /\ writes[j].type = TypeOf(p, k)
                   /\ Cardinality({j \in 1..Len(termBatch) :
                                     termBatch[j].key = k /\ termBatch[j].mult > 0}) = 1 =>
                        /\ ChangesOf(p, k).value = ChangesOf(termBatch, k).value
                        /\ ChangesOf(p, k).orderByIndex = ChangesOf(termBatch, k).orderByIndex
                        /\ ~Threw(writes) =>
                             \E j \in 1..Len(writes) :
                               writes[j].key = k /\ writes[j].value = ChangesOf(p, k).value

\* A batch of one insertion followed by one retraction of another value of the
\* same key was written as an update with the inserted value.
C26_Witness ==
  /\ pc = "done"
  /\ Len(termBatch) = 2
  /\ termBatch[1].key = termBatch[2].key
  /\ termBatch[1].mult = 1 /\ termBatch[2].mult = 0 - 1
  /\ termBatch[1].value # termBatch[2].value
  /\ Len(writes) = 1
  /\ writes[1].type = "update"
  /\ writes[1].value = termBatch[1].value

\* The changes of the last call without the deletes for keys not in sentKeys.
VisibleChanges ==
  SelectSeq(call.changes, LAMBDA c : c.key \in call.sentBefore \/ c.type # "delete")

\* C27: in lazy mode, before loadInitialState() the changes forwarded for a
\* live delivery are, in order, its changes without the deletes for unsent
\* keys, each update for an unsent key turned into an insert and every other
\* change (any change for a sent key, any insert) as it came; after
\* loadInitialState() the delivery is forwarded as it came. A live delivery
\* leaves sentKeys and loadedInitialState alone.
C27_LazyForwarding ==
  call.kind = "change" =>
    /\ sentKeys = call.sentBefore
    /\ loadedInitialState = call.loadedBefore
    /\ call.loadedBefore => call.out = call.changes
    /\ ~call.loadedBefore =>
         call.out = [i \in 1..Len(VisibleChanges) |->
                       IF VisibleChanges[i].key \notin call.sentBefore
                          /\ VisibleChanges[i].type = "update"
                       THEN [VisibleChanges[i] EXCEPT !.type = "insert"]
                       ELSE VisibleChanges[i]]

\* Before loadInitialState(), an update or a delete for a key that loadKeys
\* had sent was forwarded as it came.
C27_Witness ==
  /\ call.kind = "change"
  /\ ~call.loadedBefore
  /\ call.changes # <<>>
  /\ call.changes[1].type \in {"update", "delete"}
  /\ call.changes[1].key \in call.sentBefore
  /\ call.out = call.changes

\* A step that only enqueues: no run is started and the operator state, the
\* result collection, its transactions and its readiness stay as they were.
OnlyEnqueues ==
  /\ pc' = "idle"
  /\ depth' = depth
  /\ buffer' = buffer
  /\ result' = result
  /\ writes' = writes
  /\ txOpen' = txOpen
  /\ messagesCount' = messagesCount
  /\ markedReady' = markedReady
  /\ ~justMarked' /\ ~emptyCommit'

FilteredKeys == {k \in DOMAIN src : src[k] >= whereMin}

\* C29: the first loadInitialState() sets the flag and sends, in one call of
\* sendChangesToPipeline, one insert for every row of the source that passes
\* the where clause and nothing else; every later call sends nothing and calls
\* neither sendChangesToPipeline nor maybeRunGraph. No call touches sentKeys.
C29_LoadInitialStateOnce ==
  call.kind = "loadInitialState" =>
    /\ loadedInitialState
    /\ sentKeys = call.sentBefore
    /\ ~call.loadedBefore =>
         /\ call.sends = 1
         /\ Len(call.out) = Cardinality(FilteredKeys)
         /\ \A k \in FilteredKeys :
              \E i \in 1..Len(call.out) :
                /\ call.out[i].type = "insert"
                /\ call.out[i].key = k
                /\ call.out[i].value = [key |-> k, ord |-> src[k]]
    /\ call.loadedBefore => (call.out = <<>> /\ call.sends = 0)

\* loadInitialState() was called again after live changes, on a source with
\* rows that pass the where clause and rows that loadKeys had not sent.
C29_Witness ==
  /\ call.kind = "loadInitialState"
  /\ call.loadedBefore
  /\ ops = MaxOps
  /\ FilteredKeys \ sentKeys # {}
  /\ call.out = <<>>

\* A step with an index load: sync with its first load, or loadMoreIfNeeded
\* finding that more rows are needed; the number of rows the load asks for.
IndexLoadStep ==
  indexed /\ \/ pc = "init" /\ subscribed'
             \/ pc = "callback" /\ hasCallback /\ DataNeeded(buffer, offset, limit) > 0
LoadSize == IF pc = "init" THEN offset + limit ELSE DataNeeded(buffer, offset, limit)

\* The rows of the source after the resume point: all of them when the tracker
\* has no biggest row, otherwise those whose order value is greater than that
\* of the biggest row.
AfterResumePoint ==
  {r \in SourceRows(src) : biggest = <<>> \/ r.ord > biggest[1].ord}

\* The greatest order value among rows, 0 - 1 for none.
MaxOrd(S) == IF S = {} THEN 0 - 1 ELSE CHOOSE m \in {r.ord : r \in S} : \A r \in S : r.ord <= m

Pairs(obj) == {obj.props[i] : i \in 1..Len(obj.props)}
Cached(o) == hashCache[o] # <<>>
HashOf(o) == <<hashCache[o][1]>>
HashedObject(kind) ==
  call.kind = "hash" /\ call.input.type = "object" /\ heap[call.input.ref].kind = kind

\* C31: the hash is canonical: two plain objects with the same key/value pairs
\* hash equal whatever the insertion order of their keys, two Dates with the
\* same time hash equal, 0 and -0 hash equal, and every NaN hashes equal.
C31_CanonicalHash ==
  /\ HashedObject("plain") =>
       \A b \in Objs :
         (Cached(b) /\ heap[b].kind = "plain" /\ Pairs(heap[b]) = Pairs(heap[call.input.ref]))
           => call.out = HashOf(b)
  /\ HashedObject("date") =>
       \A b \in Objs :
         (Cached(b) /\ heap[b].kind = "date" /\ heap[b].time = heap[call.input.ref].time)
           => call.out = HashOf(b)
  /\ (call.kind = "hash" /\ call.input.type = "number") =>
       \A same \in {{"0", "-0"}, {"NaN", "-NaN"}} :
         call.input.num \in same =>
           \A n \in same :
             call.out = hash([type |-> "number", num |-> n],
                             [cache |-> hashCache, next |-> nextRefId]).out

\* The objects that are hashed by reference: byte buffers and functions.
RefObjs == {o \in Objs : heap[o].kind \in {"bytes", "function"}}

\* C32: byte buffers and functions are hashed by identity: once such an object
\* has a reference hash every later call returns it, whatever is written into
\* the object; an object without one takes the counter's next value, the
\* counter only increases, and two distinct objects never have the same
\* reference hash, whatever their contents.
C32_HashedByIdentity ==
  /\ [](\A a \in RefObjs : \A b \in RefObjs \ {a} :
          (Cached(a) /\ Cached(b)) => HashOf(a) # HashOf(b))
  /\ []((call.kind = "hash" /\ call.input.type = "object" /\ call.input.ref \in RefObjs)
          => (Cached(call.input.ref) /\ call.out = HashOf(call.input.ref)))
  /\ [][/\ nextRefId' >= nextRefId
        /\ \A o \in RefObjs :
             /\ Cached(o) => hashCache'[o] = hashCache[o]
             /\ (~Cached(o) /\ hashCache'[o] # <<>>) => nextRefId' = nextRefId + 1]_vars

\* Two byte buffers have been hashed and hold the same content, one of them
\* having been written to.
C32_Witness ==
  /\ call.kind = "hash"
  /\ ops = 1
  /\ RefObjs = Objs
  /\ \A o \in Objs : heap[o].kind = "bytes" /\ Cached(o)
  /\ heap[1].data = heap[2].data
  /\ nextRefId = 3

\* The sum of the multiplicities the operator state holds for the rows of key k.
RECURSIVE SumUpTo(_, _)
SumUpTo(k, v) == IF v < 0 THEN 0 ELSE buffer[Row(k, v)] + SumUpTo(k, v - 1)
KeySum(k) == SumUpTo(k, MaxVal)

\* C33: in lazy mode, whatever the interleaving of loadKeys, loadInitialState
\* and live changes, the multiplicities sent to the input for a key sum to 0
\* or 1.
C33_LazyKeySum ==
  pc = "lazy" => \A k \in Keys : KeySum(k) \in {0, 1}

\* The sum of the multiplicities of the tuples for key k that wait on the
\* input and pass the WHERE of the pipeline.
RECURSIVE PendingSum(_, _)
PendingSum(k, q) ==
  IF q = <<>> THEN 0
  ELSE (IF Head(q).key = k /\ Pass(Head(q).value, whereMin) THEN Head(q).mult ELSE 0)
       + PendingSum(k, Tail(q))

\* C34: in ordered mode the multiplicities sent to the input for a key, those
\* the top-K has taken in and those that wait on the input, sum to 0 or 1.
C34_OrderedKeySum ==
  (indexed /\ subscribed) => \A k \in Keys : KeySum(k) + PendingSum(k, inputQ) \in {0, 1}

\* The sum of the multiplicities of the tuples of q that carry row r.
RECURSIVE RowSum(_, _)
RowSum(r, q) ==
  IF q = <<>> THEN 0
  ELSE (IF Head(q).value = r THEN Head(q).mult ELSE 0) + RowSum(r, Tail(q))

\* Tuples were waiting on the input when the source transaction that is being
\* handled was made.
QueuedBefore == opLog # <<>> /\ ~opLog[1].quiet

C36_CommitBeforeReady ==
  /\ [][justMarked'
          => (emptyCommit' \/ (messagesCount > 0 /\ ~txOpen))]_vars
  /\ [][(pc = "finish" /\ messagesCount = 0) => (emptyCommit' /\ ~txOpen')]_vars
  /\ [](markedReady => ~txOpen)

\* The start on a ready source whose rows all fail the WHERE: the run produced
\* no output, the empty transaction was issued and markReady() was called.
C36_Witness ==
  /\ pc = "idle" /\ subscribed /\ ops = 0
  /\ src # Empty /\ status = "ready"
  /\ messagesCount = 0
  /\ emptyCommit /\ justMarked /\ markedReady

\* C37: the maybeRunGraph that ends issues the empty transaction exactly when
\* no output message has been produced since the sync started; the count of
\* output messages never goes down, so once a message has been materialized
\* no empty transaction is issued again.
C37_EmptyCommitOnlyBeforeOutput ==
  /\ [][pc = "finish" => (emptyCommit' <=> messagesCount = 0)]_vars
  /\ [][pc # "finish" => ~emptyCommit']_vars
  /\ [][messagesCount' >= messagesCount]_vars
  /\ [][(messagesCount' > messagesCount) => (pc = "run" /\ termBatch' # <<>>)]_vars
  /\ [][(pc = "run" /\ termBatch' # <<>>) => messagesCount' > 0]_vars

\* A live change was handled whose run produced no output message in a session
\* that had materialized messages before: no empty transaction was issued.
C37_Witness ==
  /\ pc = "idle" /\ subscribed /\ ops >= 1
  /\ messagesCount > 0
  /\ result # Empty
  /\ opLog # <<>> /\ opLog[1].result = result
  /\ ~emptyCommit
  /\ justMarked

\* C38: a batch on which the output handler throws leaves the result
\* collection as it was, with no write committed and no transaction open.
C38_ThrowLeavesNothing ==
  [][pc' = "error" => (result' = result /\ ~txOpen')]_vars

\* C39: a call of hash on a plain object or a Date returns the hash of the
\* content the object has at the time of the call, also after the object was
\* changed since it was hashed before.
C39_HashOfPresentContent ==
  (HashedObject("plain") \/ HashedObject("date"))
    => call.out = <<ValueHash(heap[call.input.ref], nextRefId)>>

====
